---- MODULE Spec2Model ----
(***************************************************************************)
(* PSIL (ghewgill/psil): the tree-walking evaluator of                     *)
(* src/psil/interpreter.py (Scope, Function, TailCall, psil) and the       *)
(* symbol interner of src/psil/symbol.py, as state machines.               *)
(*                                                                         *)
(* The Python call stack is explicit (stack): one frame per active         *)
(* Scope.eval or Function.apply call.  A frame that finishes hands its     *)
(* value to the frame below (vals); an exception in flight (ctl = "exc")   *)
(* is handed from frame to frame, each running its own except clauses.     *)
(*                                                                         *)
(* The repository holds the evaluator twice: src/psil/interpreter.py and   *)
(* the older single-file src/psil.py.  They differ, for the evaluator, in  *)
(* one argument (interpreter.py:369 against psil.py:350); impl says which  *)
(* of the two is running.                                                  *)
(***************************************************************************)
EXTENDS Integers, Sequences, FiniteSets, TLC

\* ------------------------------------------------------------------ bounds
\* Largest count handed to the recursive test programs (sum-to n 0), (ev n).
MaxN == 3
\* Most arguments passed in the parameter-binding programs.
MaxArgs == 3
\* Most gensym calls / interner operations of the interner specification.
MaxSymOps == 4

\* ------------------------------------------------------------------ values
\* Every PSIL value and form is one record shape, so that any two compare.
\*   k: "nil" | "bool" | "int" | "str" | "sym" | "seq" | "fn" | "host"
Nil      == [k |-> "nil",  i |-> 0, n |-> "", e |-> <<>>]
Bool(b)  == [k |-> "bool", i |-> IF b THEN 1 ELSE 0, n |-> "", e |-> <<>>]
Num(i)   == [k |-> "int",  i |-> i, n |-> "", e |-> <<>>]
Str(s)   == [k |-> "str",  i |-> 0, n |-> s,  e |-> <<>>]
Sym(n)   == [k |-> "sym",  i |-> 0, n |-> n,  e |-> <<>>]
L(e)     == [k |-> "seq",  i |-> 0, n |-> "", e |-> e]
Fn(id)   == [k |-> "fn",   i |-> id, n |-> "", e |-> <<>>]
Host(n)  == [k |-> "host", i |-> 0, n |-> n,  e |-> <<>>]

IsSym(v)  == v.k = "sym"
IsList(v) == v.k = "seq"

\* The empty mapping (a Python dict with no keys).
EmptyDict == [x \in {} |-> Nil]
DictSet(d, key, v) == [x \in (DOMAIN d) \cup {key} |-> IF x = key THEN v ELSE d[x]]

\* s[from:] of a Python list, for a 1-based TLA+ sequence.
Drop(s, cnt) == IF cnt >= Len(s) THEN <<>> ELSE SubSeq(s, cnt + 1, Len(s))
Take(s, cnt) == IF cnt <= 0 THEN <<>> ELSE SubSeq(s, 1, IF cnt > Len(s) THEN Len(s) ELSE cnt)

\* Python truth value of a PSIL value: None, False, 0, "" and [] are false.
Truthy(v) ==
    ~ \/ v.k = "nil"
      \/ (v.k = "bool" /\ v.i = 0)
      \/ (v.k = "int" /\ v.i = 0)
      \/ (v.k = "str" /\ v.n = "")
      \/ (v.k = "seq" /\ v.e = <<>>)

\* ------------------------------------------------------------------ Scope
\* A scope made with no parent, whatever parent it was given.
NewScopeDetached(parent) ==
    [parent |-> 0, symbols |-> EmptyDict, hasglobals |-> FALSE, globals |-> EmptyDict]

\* Scope.__init__: a scope with no bindings and no fallback table.
NewScope(parent) ==
    [parent |-> parent, symbols |-> EmptyDict, hasglobals |-> FALSE, globals |-> EmptyDict]

\* Scope.setglobals(globals); psil() passes glob, which may be None.
ScopeSetglobals(scs, s, g) ==
    [scs EXCEPT ![s].hasglobals = g.installed, ![s].globals = g.table]

\* Scope.define: whether the "redefining" warning is printed.
DefineWarns(scs, s, name) == name \in DOMAIN scs[s].symbols

\* A define that leaves a name alone once the scope binds it.
ScopeDefineKeepsFirst(scs, s, name, value) ==
    IF name \in DOMAIN scs[s].symbols THEN scs
    ELSE [scs EXCEPT ![s].symbols = DictSet(@, name, value)]

\* Scope.define: self.symbols[name] = value.
ScopeDefine(scs, s, name, value) ==
    [scs EXCEPT ![s].symbols = DictSet(@, name, value)]

\* A walk that stops at once: the assignment lands in scope s itself.
SetWalkHere(scs, s, name) == s

\* Scope.set's walk: the first scope from s up the parent links whose own
\* table holds name; 0 when the walk reaches None.
RECURSIVE SetWalk(_, _, _)
SetWalk(scs, s, name) ==
    IF s = 0 THEN 0
    ELSE IF name \in DOMAIN scs[s].symbols THEN s
    ELSE SetWalk(scs, scs[s].parent, name)

\* A set that, finding no binding, stores into the root's fallback table
\* when that table has the name.
ScopeSetThroughFallback(scs, s, name, value) ==
    LET t == SetWalk(scs, s, name) IN
    IF t # 0 THEN [err |-> "", scopes |-> [scs EXCEPT ![t].symbols = DictSet(@, name, value)]]
    ELSE IF scs[1].hasglobals /\ name \in DOMAIN scs[1].globals
         THEN [err |-> "", scopes |-> [scs EXCEPT ![1].globals = DictSet(@, name, value)]]
    ELSE [err |-> "UndefinedSymbolError", scopes |-> scs]

\* Scope.set: the scopes after the call, or UndefinedSymbolError.
ScopeSet(scs, s, name, value) ==
    LET t == SetWalk(scs, s, name) IN
    IF t = 0 THEN [err |-> "UndefinedSymbolError", scopes |-> scs]
    ELSE [err |-> "", scopes |-> [scs EXCEPT ![t].symbols = DictSet(@, name, value)]]

\* A lookup that asks a scope's fallback table before the scope's own table.
RECURSIVE ScopeLookupFallbackFirst(_, _, _)
ScopeLookupFallbackFirst(scs, s, name) ==
    IF s = 0 THEN [found |-> FALSE, value |-> Nil]
    ELSE IF scs[s].hasglobals /\ name \in DOMAIN scs[s].globals
         THEN [found |-> TRUE, value |-> scs[s].globals[name]]
    ELSE IF name \in DOMAIN scs[s].symbols
         THEN [found |-> TRUE, value |-> scs[s].symbols[name]]
    ELSE ScopeLookupFallbackFirst(scs, scs[s].parent, name)

\* Scope.lookup: (found, value).  Each scope's own table, then that scope's
\* fallback table if it has one, then the parent.
RECURSIVE ScopeLookup(_, _, _)
ScopeLookup(scs, s, name) ==
    IF s = 0 THEN [found |-> FALSE, value |-> Nil]
    ELSE IF name \in DOMAIN scs[s].symbols
         THEN [found |-> TRUE, value |-> scs[s].symbols[name]]
    ELSE IF scs[s].hasglobals /\ name \in DOMAIN scs[s].globals
         THEN [found |-> TRUE, value |-> scs[s].globals[name]]
    ELSE ScopeLookup(scs, scs[s].parent, name)

\* ------------------------------------------------------------------ Function
\* The loop of Function.__init__ over the listed parameters: an entry
\* (o name) adds name, any other entry adds itself and counts as fixed.
RECURSIVE InitParams(_, _)
InitParams(ps, acc) ==
    IF ps = <<>> THEN acc
    ELSE LET p == Head(ps)
             opt == IsList(p) /\ Len(p.e) > 0 /\ IsSym(p.e[1]) /\ p.e[1].n = "o"
         IN  IF acc.err # "" THEN acc
             ELSE IF opt /\ Len(p.e) < 2
                  THEN [acc EXCEPT !.err = "IndexError"]
             ELSE IF opt
                  THEN InitParams(Tail(ps), [acc EXCEPT !.params = Append(@, p.e[2])])
             ELSE InitParams(Tail(ps), [acc EXCEPT !.params = Append(@, p),
                                                   !.fixed = @ + 1])

\* Function.__init__(name, params, body, scope); Macro is the same class
\* with another tag.  err names the exception the constructor raises.
FunctionInit(name, params, body, scope, macro) ==
    LET base == [err |-> "", name |-> name, params |-> <<>>, fixed |-> 0,
                 rest |-> Nil, body |-> body, scope |-> scope, macro |-> macro]
        k == IF IsList(params) THEN Len(params.e) ELSE 0
    IN  IF IsSym(params) THEN [base EXCEPT !.rest = params]
        ELSE IF ~IsList(params) THEN [base EXCEPT !.err = "TypeError"]
        ELSE IF k >= 2 /\ ~IsSym(params.e[k - 1])
             THEN [base EXCEPT !.err = "AttributeError"]
        ELSE IF k >= 2 /\ params.e[k - 1].n = "."
             THEN InitParams(Take(params.e, k - 2), [base EXCEPT !.rest = params.e[k]])
        ELSE InitParams(params.e, base)

\* The zip loop of Function.apply: scope.define(p.name, a) for each listed
\* parameter, the arguments padded with None.
RECURSIVE BindParams(_, _, _, _)
BindParams(ps, args, i, acc) ==
    IF i > Len(ps) \/ acc.err # "" THEN acc
    ELSE IF ~IsSym(ps[i]) THEN [acc EXCEPT !.err = "AttributeError"]
    ELSE LET a == IF i <= Len(args) THEN args[i] ELSE Nil
             nm == ps[i].n
         IN  BindParams(ps, args, i + 1,
                 [acc EXCEPT !.symbols = DictSet(@, nm, a),
                             !.warns = IF nm \in DOMAIN acc.symbols
                                       THEN Append(@, nm) ELSE @])

\* A binding that gives the rest name every argument past the required ones.
ApplyBindRestFromFixed(f, args) ==
    LET cnt == Len(args)
        k == Len(f.params)
        none == [err |-> "", symbols |-> EmptyDict, warns |-> <<>>]
    IN  IF cnt < f.fixed THEN [none EXCEPT !.err = "AssertionError"]
        ELSE IF f.rest # Nil
             THEN BindParams(f.params, args, 1,
                    [none EXCEPT !.symbols =
                        DictSet(EmptyDict, f.rest.n, L(Drop(args, f.fixed)))])
        ELSE IF cnt > k THEN [none EXCEPT !.err = "AssertionError"]
        ELSE BindParams(f.params, args, 1, none)

\* Function.apply, lines 430-443: the bindings made in the new scope, or the
\* exception raised (the asserts, or .name of a parameter that is no symbol).
ApplyBind(f, args) ==
    LET cnt == Len(args)
        k == Len(f.params)
        none == [err |-> "", symbols |-> EmptyDict, warns |-> <<>>]
    IN  IF cnt < f.fixed THEN [none EXCEPT !.err = "AssertionError"]
        ELSE IF f.rest # Nil
             THEN IF ~IsSym(f.rest) THEN [none EXCEPT !.err = "AttributeError"]
                  ELSE BindParams(f.params, args, 1,
                         [none EXCEPT !.symbols =
                             DictSet(EmptyDict, f.rest.n,
                                     IF cnt > k THEN L(Drop(args, k)) ELSE L(<<>>))])
        ELSE IF cnt > k THEN [none EXCEPT !.err = "AssertionError"]
        ELSE BindParams(f.params, args, 1, none)

VARIABLES
    impl,      \* "interpreter" (src/psil/interpreter.py) or "psil_py" (src/psil.py)
    prog,       \* the top-level forms psil() has still to evaluate
    expanded,   \* psil()'s p after macroexpand_r: <<p>>, or <<>> between forms
    progid,     \* which test program prog was taken from
    glob,       \* psil()'s glob argument: [installed, table]
    scopes,     \* the Scope objects; scopes[1] is Globals
    functions,  \* the Function / Macro objects
    stack,      \* the active Scope.eval / Function.apply frames, innermost last
    ctl,        \* "run" | "exc" | "done" | "uncaught"
    exc,        \* the exception in flight when ctl is "exc" or "uncaught"
    r,          \* psil()'s r: the value of the last top-level form
    stdout,     \* what print and the evaluator's diagnostics wrote
    stderr,     \* names Scope.define warned about
    other,      \* <<what the same text gave on the other evaluator>>, else <<>>
    names,      \* Symbol.names: name -> Symbol object
    gensym_counter, \* Symbol.gensym_counter
    symobjs,    \* every Symbol object constructed: object -> its name
    symlog,     \* the interner calls made so far
    rdtext,     \* the source text handed to tokenise, a sequence of characters
    tokens,     \* the token generator: the tokens it has still to yield
    rdlog,      \* what the parse calls on tokens have returned or raised
    rdform,     \* <<F>> once external(F) has been taken, else <<>>
    rdpc        \* where the reader run stands

vars == <<impl, prog, expanded, progid, glob, scopes, functions, stack, ctl, exc, r,
          stdout, stderr, other, names, gensym_counter, symobjs, symlog,
          rdtext, tokens, rdlog, rdform, rdpc>>
evalvars == <<impl, prog, expanded, progid, glob, scopes, functions, stack, ctl, exc, r,
              stdout, stderr, other>>
symvars == <<names, gensym_counter, symobjs, symlog>>
rdvars == <<rdtext, tokens, rdlog, rdform, rdpc>>

\* ------------------------------------------------------------------ frames
\* An activation of Scope.eval(s, tail) on scope; vals are the values its
\* nested calls have returned so far, (fn, args) the TailCall `a` of its
\* trampoline loop.
EvalFrame(s, scope, tail) ==
    [kind |-> "eval", s |-> s, scope |-> scope, tail |-> tail, pc |-> "start",
     vals |-> <<>>, fn |-> Nil, args |-> <<>>, depth |-> 0, quoted |-> FALSE]

\* An activation of Function.apply(args, tail) on fn; vals are the values of
\* the body forms evaluated so far.
ApplyFrame(fn, args, tail) ==
    [kind |-> "apply", s |-> Nil, scope |-> 0, tail |-> tail, pc |-> "bind",
     vals |-> <<>>, fn |-> fn, args |-> args, depth |-> 0, quoted |-> FALSE]

\* An activation of the local function qq(t, depth) of Scope.eval running
\* on scope; vals are the values its nested qq and eval calls returned, one
\* per element walked.
QqFrame(t, scope, depth) ==
    [kind |-> "qq", s |-> t, scope |-> scope, tail |-> FALSE, pc |-> "start",
     vals |-> <<>>, fn |-> Nil, args |-> <<>>, depth |-> depth, quoted |-> FALSE]

\* An activation of macroexpand_r(p, depth, quoted); vals are the values its
\* nested macroexpand_r calls, or the macro it applied, returned.
MxFrame(p, depth, quoted) ==
    [kind |-> "mx", s |-> p, scope |-> 0, tail |-> FALSE, pc |-> "start",
     vals |-> <<>>, fn |-> Nil, args |-> <<>>, depth |-> depth, quoted |-> quoted]

NoExc == [type |-> "", fn |-> Nil, args |-> <<>>]
Exc(type) == [type |-> type, fn |-> Nil, args |-> <<>>]
\* TailCall.__init__(fn, args)
\* A TailCall that keeps its arguments last first.
TailCallArgsReversed(fn, args) ==
    [type |-> "TailCall", fn |-> fn,
     args |-> [j \in 1..Len(args) |-> args[Len(args) + 1 - j]]]
TailCall(fn, args) == [type |-> "TailCall", fn |-> fn, args |-> args]

Top == stack[Len(stack)]
Running == ctl = "run" /\ stack # <<>>
Raising == ctl = "exc" /\ stack # <<>>

\* The stack with its top frame replaced.
SetTop(f) == [stack EXCEPT ![Len(stack)] = f]
\* The stack with the top frame at pc and a frame for a nested call on it.
Call(pc, callee) == Append(SetTop([Top EXCEPT !.pc = pc]), callee)

\* `return v` in the top frame: the frame goes, the caller's frame gets v;
\* the outermost frame returns to psil(), which stores it in r.
Return(v) ==
    /\ stack' = IF Len(stack) = 1 THEN <<>>
                ELSE [SubSeq(stack, 1, Len(stack) - 1)
                        EXCEPT ![Len(stack) - 1].vals = Append(@, v)]
    /\ r' = IF Len(stack) = 1 THEN v ELSE r
    /\ ctl' = "run"
    /\ exc' = NoExc

\* `raise e` in the top frame: the frame stays, to run its except clauses.
Raise(e) ==
    /\ ctl' = "exc"
    /\ exc' = e
    /\ UNCHANGED <<stack, r>>

\* ------------------------------------------------------------------ host
\* Globals.symbols as the module sets it up (the entries the programs use).
HostNames == {"+", "-", "==", "list"}
\* Names the evaluator finds in __builtins__ after the scope chain.
Builtins == {"print"}

RECURSIVE SumInts(_)
SumInts(a) == IF a = <<>> THEN 0 ELSE Head(a).i + SumInts(Tail(a))
RECURSIVE SubInts(_, _)
SubInts(acc, a) == IF a = <<>> THEN acc ELSE SubInts(acc - Head(a).i, Tail(a))
\* _all(operator.eq, args): every adjacent pair is equal.
AllEq(a) == \A j \in 1..(Len(a) - 1) : a[j] = a[j + 1]
AllInts(a) == \A j \in 1..Len(a) : a[j].k = "int"

\* fn(*args) for a host callable: the value, or the exception, and stdout.
HostCall(name, a, out) ==
    LET ok(v) == [err |-> "", v |-> v, out |-> out]
        bad(e) == [err |-> e, v |-> Nil, out |-> out]
    IN  CASE name = "+" -> IF AllInts(a) THEN ok(Num(SumInts(a))) ELSE bad("TypeError")
          [] name = "-" -> IF ~AllInts(a) \/ a = <<>> THEN bad("TypeError")
                           ELSE IF Len(a) = 1 THEN ok(Num(0 - a[1].i))
                           ELSE ok(Num(SubInts(a[1].i, Tail(a))))
          [] name = "==" -> ok(Bool(AllEq(a)))
          [] name = "list" -> ok(L(a))
          [] name = "print" -> [err |-> "", v |-> Nil,
                                out |-> Append(out, [kind |-> "print", v |-> L(a)])]
          [] OTHER -> bad("TypeError")

\* ------------------------------------------------------------------ forms
\* The symbol names in use whose first character is ":" (strings have no
\* characters here): s.name[0].startswith(":") is membership in this set.
ColonNames == {":key"}

\* The branch of Scope.eval's dispatch (lines 309-389) a form takes.
FormKind(s) ==
    IF IsList(s) /\ Len(s.e) > 0
    THEN IF IsSym(s.e[1])
         THEN CASE s.e[1].n = "define" ->
                     IF IsSym(s.e[2]) THEN "define" ELSE "define_fn"
                [] s.e[1].n = "defmacro" -> "defmacro"
                [] s.e[1].n = "if" -> "if"
                [] s.e[1].n = "lambda" -> "lambda"
                [] s.e[1].n = "quasiquote" -> "quasiquote"
                [] s.e[1].n = "quote" -> "quote"
                [] s.e[1].n = "set!" -> "set"
                [] OTHER -> "call"
         ELSE "call"
    ELSE IF IsSym(s)
         THEN IF s.n \in ColonNames THEN "keyword" ELSE "symbol"
         ELSE "atom"

\* isinstance(fn, Function) (a Macro is one too), isinstance(fn, Macro).
IsFunction(v) == v.k = "fn"
IsMacro(v) == v.k = "fn" /\ functions[v.i].macro
\* hasattr(fn, "__call__")
IsCallable(v) == v.k = "fn" \/ v.k = "host"

\* The tail argument Scope.eval passes to Function.apply when it applies a
\* Function outside tail position.
ApplyTailInterpreter(tail) == tail
ApplyTailPsilPy(tail) == TRUE
ApplyTail(tail) ==
    IF impl = "interpreter" THEN ApplyTailInterpreter(tail) ELSE ApplyTailPsilPy(tail)

\* The branch of lines 363-373 taken for the evaluated head fn.
CallBranch(fn, tail) ==
    IF IsMacro(fn) THEN "macro"
    ELSE IF tail THEN "tail"
    ELSE IF IsFunction(fn) THEN "apply"
    ELSE IF IsCallable(fn) THEN "host"
    ELSE "notcallable"

\* ------------------------------------------------------------------ Scope.eval
EvalAt(kind, pc) ==
    /\ Running
    /\ Top.kind = "eval"
    /\ FormKind(Top.s) = kind
    /\ Top.pc = pc

\* Lines 374-376 and 388-389: a keyword symbol, a number, a string, None
\* and the empty list evaluate to themselves.
EvalSelf ==
    /\ Running /\ Top.kind = "eval" /\ Top.pc = "start"
    /\ FormKind(Top.s) \in {"atom", "keyword"}
    /\ Return(Top.s)
    /\ UNCHANGED <<symvars, rdvars, other>>
    /\ UNCHANGED <<impl, expanded, prog, progid, glob, scopes, functions, stdout, stderr>>

\* Lines 377-387: a symbol is looked up on the scope chain, then among the
\* host's builtins.
EvalSymbol ==
    /\ EvalAt("symbol", "start")
    /\ LET l == ScopeLookup(scopes, Top.scope, Top.s.n) IN
         IF l.found THEN Return(l.value)
         ELSE IF Top.s.n \in Builtins THEN Return(Host(Top.s.n))
         ELSE Raise(Exc("UndefinedSymbolError"))
    /\ UNCHANGED <<symvars, rdvars, other>>
    /\ UNCHANGED <<impl, expanded, prog, progid, glob, scopes, functions, stdout, stderr>>

\* Lines 352-353: (quote X).
EvalQuote ==
    /\ EvalAt("quote", "start")
    /\ Return(Top.s.e[2])
    /\ UNCHANGED <<symvars, rdvars, other>>
    /\ UNCHANGED <<impl, expanded, prog, progid, glob, scopes, functions, stdout, stderr>>

\* Lines 326-327: (lambda PARAMS BODY...).
EvalLambda ==
    /\ EvalAt("lambda", "start")
    /\ LET f == FunctionInit("lambda", Top.s.e[2], Drop(Top.s.e, 2), Top.scope, FALSE) IN
         IF f.err # ""
         THEN Raise(Exc(f.err)) /\ UNCHANGED functions
         ELSE /\ functions' = Append(functions, f)
              /\ Return(Fn(Len(functions) + 1))
    /\ UNCHANGED <<symvars, rdvars, other>>
    /\ UNCHANGED <<impl, expanded, prog, progid, glob, scopes, stdout, stderr>>

\* Lines 315-316: (define (NAME PARAMS...) BODY...).
EvalDefineFunction ==
    /\ EvalAt("define_fn", "start")
    /\ LET nm == Top.s.e[2].e[1].n
           f == FunctionInit(nm, L(Tail(Top.s.e[2].e)), Drop(Top.s.e, 2), Top.scope, FALSE)
       IN  IF f.err # ""
           THEN Raise(Exc(f.err)) /\ UNCHANGED <<functions, scopes, stderr>>
           ELSE /\ functions' = Append(functions, f)
                /\ scopes' = ScopeDefine(scopes, Top.scope, nm, Fn(Len(functions) + 1))
                /\ stderr' = IF DefineWarns(scopes, Top.scope, nm)
                             THEN Append(stderr, nm) ELSE stderr
                /\ Return(Fn(Len(functions) + 1))
    /\ UNCHANGED <<symvars, rdvars, other>>
    /\ UNCHANGED <<impl, expanded, prog, progid, glob, stdout>>

\* Lines 317-318: (defmacro NAME PARAMS BODY...) defines a Macro.
EvalDefmacro ==
    /\ EvalAt("defmacro", "start")
    /\ LET nm == Top.s.e[2].n
           f == FunctionInit(nm, Top.s.e[3], Drop(Top.s.e, 3), Top.scope, TRUE)
       IN  IF f.err # ""
           THEN Raise(Exc(f.err)) /\ UNCHANGED <<functions, scopes, stderr>>
           ELSE /\ functions' = Append(functions, f)
                /\ scopes' = ScopeDefine(scopes, Top.scope, nm, Fn(Len(functions) + 1))
                /\ stderr' = IF DefineWarns(scopes, Top.scope, nm)
                             THEN Append(stderr, nm) ELSE stderr
                /\ Return(Fn(Len(functions) + 1))
    /\ UNCHANGED <<symvars, rdvars, other>>
    /\ UNCHANGED <<impl, expanded, progid, prog, glob, stdout>>

\* Lines 313-314: (define NAME VALUE), the call self.eval(s[2]).
EvalDefineValue ==
    /\ EvalAt("define", "start")
    /\ stack' = Call("define", EvalFrame(Top.s.e[3], Top.scope, FALSE))
    /\ UNCHANGED <<symvars, rdvars, other>>
    /\ UNCHANGED <<impl, expanded, prog, progid, glob, scopes, functions, ctl, exc, r, stdout, stderr>>

\* Lines 313-314: (define NAME VALUE), self.define(name, value).
EvalDefineBind ==
    /\ EvalAt("define", "define") /\ Len(Top.vals) = 1
    /\ scopes' = ScopeDefine(scopes, Top.scope, Top.s.e[2].n, Top.vals[1])
    /\ stderr' = IF DefineWarns(scopes, Top.scope, Top.s.e[2].n)
                 THEN Append(stderr, Top.s.e[2].n) ELSE stderr
    /\ Return(Top.vals[1])
    /\ UNCHANGED <<symvars, rdvars, other>>
    /\ UNCHANGED <<impl, expanded, prog, progid, glob, functions, stdout>>

\* Line 320: (if C T E), the call self.eval(s[1]).
EvalIfCond ==
    /\ EvalAt("if", "start")
    /\ stack' = Call("cond", EvalFrame(Top.s.e[2], Top.scope, FALSE))
    /\ UNCHANGED <<symvars, rdvars, other>>
    /\ UNCHANGED <<impl, expanded, prog, progid, glob, scopes, functions, ctl, exc, r, stdout, stderr>>

\* Lines 320-325: the arm chosen by the condition, evaluated with the
\* frame's own tail flag; None when there is no else arm.
EvalIfArm ==
    /\ EvalAt("if", "cond") /\ Len(Top.vals) = 1
    /\ IF Truthy(Top.vals[1])
       THEN /\ stack' = Call("arm", EvalFrame(Top.s.e[3], Top.scope, Top.tail))
            /\ UNCHANGED <<ctl, exc, r>>
       ELSE IF Len(Top.s.e) >= 4
       THEN /\ stack' = Call("arm", EvalFrame(Top.s.e[4], Top.scope, Top.tail))
            /\ UNCHANGED <<ctl, exc, r>>
       ELSE Return(Nil)
    /\ UNCHANGED <<symvars, rdvars, other>>
    /\ UNCHANGED <<impl, expanded, prog, progid, glob, scopes, functions, stdout, stderr>>

\* Lines 354-357: (set! NAME VALUE), the check of NAME and self.eval(s[2]).
EvalSetValue ==
    /\ EvalAt("set", "start")
    /\ IF ~IsSym(Top.s.e[2])
       THEN Raise(Exc("SetNotSymbolError"))
       ELSE /\ stack' = Call("set", EvalFrame(Top.s.e[3], Top.scope, FALSE))
            /\ UNCHANGED <<ctl, exc, r>>
    /\ UNCHANGED <<symvars, rdvars, other>>
    /\ UNCHANGED <<impl, expanded, prog, progid, glob, scopes, functions, stdout, stderr>>

\* Lines 358-359: self.set(s[1].name, val); return val.
EvalSetAssign ==
    /\ EvalAt("set", "set") /\ Len(Top.vals) = 1
    /\ LET res == ScopeSet(scopes, Top.scope, Top.s.e[2].n, Top.vals[1]) IN
         IF res.err # ""
         THEN Raise(Exc(res.err)) /\ UNCHANGED scopes
         ELSE scopes' = res.scopes /\ Return(Top.vals[1])
    /\ UNCHANGED <<symvars, rdvars, other>>
    /\ UNCHANGED <<impl, expanded, prog, progid, glob, functions, stdout, stderr>>

\* Line 362: fn = self.eval(f).
EvalCallHead ==
    /\ EvalAt("call", "start")
    /\ stack' = Call("call", EvalFrame(Top.s.e[1], Top.scope, FALSE))
    /\ UNCHANGED <<symvars, rdvars, other>>
    /\ UNCHANGED <<impl, expanded, prog, progid, glob, scopes, functions, ctl, exc, r, stdout, stderr>>

\* Lines 363-365 and 372-373: the head is a Macro (the assert fails) or is
\* not callable; no argument is evaluated.
EvalCallRefuse ==
    /\ EvalAt("call", "call") /\ Len(Top.vals) = 1
    /\ CallBranch(Top.vals[1], Top.tail) \in {"macro", "notcallable"}
    /\ Raise(Exc(IF CallBranch(Top.vals[1], Top.tail) = "macro"
                 THEN "AssertionError" ELSE "NotCallableError"))
    /\ UNCHANGED <<symvars, rdvars, other>>
    /\ UNCHANGED <<impl, expanded, prog, progid, glob, scopes, functions, stdout, stderr>>

\* The arguments taken from the right end of the call first.
ArgFormRightToLeft(s, j) == s.e[Len(s.e) - j + 1]

\* [... for x in s[1:]]: the j-th form the comprehension evaluates.
ArgForm(s, j) == s.e[j + 1]

\* Lines 367, 369, 371: [self.eval(x) for x in s[1:]], the next argument.
EvalCallArg ==
    /\ EvalAt("call", "call")
    /\ Len(Top.vals) \in 1..(Len(Top.s.e) - 1)
    /\ CallBranch(Top.vals[1], Top.tail) \in {"tail", "apply", "host"}
    /\ stack' = Call("call", EvalFrame(ArgForm(Top.s, Len(Top.vals)), Top.scope, FALSE))
    /\ UNCHANGED <<symvars, rdvars, other>>
    /\ UNCHANGED <<impl, expanded, prog, progid, glob, scopes, functions, ctl, exc, r, stdout, stderr>>

\* Lines 366-367: in tail position the call is not made: raise TailCall.
EvalCallTail ==
    /\ EvalAt("call", "call") /\ Len(Top.vals) = Len(Top.s.e)
    /\ CallBranch(Top.vals[1], Top.tail) = "tail"
    /\ Raise(TailCall(Top.vals[1], Tail(Top.vals)))
    /\ UNCHANGED <<symvars, rdvars, other>>
    /\ UNCHANGED <<impl, expanded, prog, progid, glob, scopes, functions, stdout, stderr>>

\* Lines 368-369: fn.apply(args, tail=...) for a Function.
EvalCallFunction ==
    /\ EvalAt("call", "call") /\ Len(Top.vals) = Len(Top.s.e)
    /\ CallBranch(Top.vals[1], Top.tail) = "apply"
    /\ stack' = Call("applied", ApplyFrame(Top.vals[1], Tail(Top.vals), ApplyTail(Top.tail)))
    /\ UNCHANGED <<symvars, rdvars, other>>
    /\ UNCHANGED <<impl, expanded, prog, progid, glob, scopes, functions, ctl, exc, r, stdout, stderr>>

\* Lines 370-371: fn(*args) for a host callable.
EvalCallHost ==
    /\ EvalAt("call", "call") /\ Len(Top.vals) = Len(Top.s.e)
    /\ CallBranch(Top.vals[1], Top.tail) = "host"
    /\ LET res == HostCall(Top.vals[1].n, Tail(Top.vals), stdout) IN
         /\ stdout' = res.out
         /\ IF res.err # "" THEN Raise(Exc(res.err)) ELSE Return(res.v)
    /\ UNCHANGED <<symvars, rdvars, other>>
    /\ UNCHANGED <<impl, expanded, prog, progid, glob, scopes, functions, stderr>>

\* `return self.eval(...)`, `return fn.apply(...)`, `return a.apply()`,
\* `return qq(s[1])`: the
\* frame returns what the call it was waiting for returned.
EvalReturnResult ==
    /\ Running /\ Top.kind = "eval"
    /\ \/ Top.pc = "arm" /\ Len(Top.vals) = 2
       \/ Top.pc = "applied" /\ Len(Top.vals) = Len(Top.s.e) + 1
       \/ Top.pc = "tramp" /\ Top.vals # <<>>
       \/ Top.pc = "qq" /\ Len(Top.vals) = 1
    /\ Return(Top.vals[Len(Top.vals)])
    /\ UNCHANGED <<symvars, rdvars, other>>
    /\ UNCHANGED <<impl, expanded, prog, progid, glob, scopes, functions, stdout, stderr>>

\* ------------------------------------------------------------------ qq
\* Line 341: x is a sequence headed by the symbol unquote-splicing.
IsSplice(x) == IsList(x) /\ Len(x.e) > 0 /\ IsSym(x.e[1]) /\ x.e[1].n = "unquote-splicing"
\* Lines 331-338: t is headed by the symbol quasiquote / unquote.
HeadedBy(t, nm) == IsList(t) /\ Len(t.e) > 0 /\ IsSym(t.e[1]) /\ t.e[1].n = nm

\* A splice that adds the value's elements last to first.
SplicedReversed(v) == [j \in 1..Len(v.e) |-> v.e[Len(v.e) + 1 - j]]

\* r.extend(v): the elements v adds to r, for a v that is a list.
Spliced(v) == v.e

\* Lines 339-348: the list r built from the elements of t walked so far,
\* vals[j] being what the walk of element j returned.
RECURSIVE Assemble(_, _, _, _)
Assemble(t, depth, vals, j) ==
    IF j = 0 THEN <<>>
    ELSE LET x == t.e[j]
             before == Assemble(t, depth, vals, j - 1)
         IN  IF IsSplice(x)
             THEN IF depth = 1 THEN before \o Spliced(vals[j])
                  ELSE Append(before, L(<<x.e[1], vals[j]>>))
             ELSE Append(before, vals[j])

\* Lines 328 and 351: (quasiquote X) is qq(s[1]), depth 1.
EvalQuasiquote ==
    /\ EvalAt("quasiquote", "start")
    /\ IF Len(Top.s.e) < 2 THEN Raise(Exc("IndexError"))
       ELSE /\ stack' = Call("qq", QqFrame(Top.s.e[2], Top.scope, 1))
            /\ UNCHANGED <<ctl, exc, r>>
    /\ UNCHANGED <<symvars, rdvars, other>>
    /\ UNCHANGED <<impl, expanded, prog, progid, glob, scopes, functions, stdout, stderr>>

QqAt(pc) == Running /\ Top.kind = "qq" /\ Top.pc = pc

\* Lines 349-350: anything that is no list is returned as it is.
QqAtom ==
    /\ QqAt("start") /\ ~IsList(Top.s)
    /\ Return(Top.s)
    /\ UNCHANGED <<symvars, rdvars, other>>
    /\ UNCHANGED <<impl, expanded, prog, progid, glob, scopes, functions, stdout, stderr>>

\* A walk that keeps its depth under a nested quasiquote.
QqNestedDepthFlat(depth) == depth

\* Line 333: qq(t[1], depth + 1).
QqNestedDepth(depth) == depth + 1

\* Lines 332-333: a nested quasiquote is walked one level deeper.
QqNested ==
    /\ QqAt("start") /\ HeadedBy(Top.s, "quasiquote")
    /\ IF Len(Top.s.e) < 2 THEN Raise(Exc("IndexError"))
       ELSE /\ stack' = Call("wrap", QqFrame(Top.s.e[2], Top.scope, QqNestedDepth(Top.depth)))
            /\ UNCHANGED <<ctl, exc, r>>
    /\ UNCHANGED <<symvars, rdvars, other>>
    /\ UNCHANGED <<impl, expanded, prog, progid, glob, scopes, functions, stdout, stderr>>

\* Lines 334-338: an unquote at depth 1 is self.eval(t[1]); deeper, it is
\* walked one level up.
QqUnquote ==
    /\ QqAt("start") /\ HeadedBy(Top.s, "unquote")
    /\ IF Len(Top.s.e) < 2 THEN Raise(Exc("IndexError"))
       ELSE /\ stack' = IF Top.depth = 1
                        THEN Call("unq", EvalFrame(Top.s.e[2], Top.scope, FALSE))
                        ELSE Call("wrap", QqFrame(Top.s.e[2], Top.scope, Top.depth - 1))
            /\ UNCHANGED <<ctl, exc, r>>
    /\ UNCHANGED <<symvars, rdvars, other>>
    /\ UNCHANGED <<impl, expanded, prog, progid, glob, scopes, functions, stdout, stderr>>

\* Lines 333, 336, 338: return the value, or [t[0], walked].
QqReturn ==
    /\ Running /\ Top.kind = "qq" /\ Top.pc \in {"unq", "wrap"} /\ Len(Top.vals) = 1
    /\ Return(IF Top.pc = "unq" THEN Top.vals[1] ELSE L(<<Top.s.e[1], Top.vals[1]>>))
    /\ UNCHANGED <<symvars, rdvars, other>>
    /\ UNCHANGED <<impl, expanded, prog, progid, glob, scopes, functions, stdout, stderr>>

\* The walk is in the loop of lines 339-347 (t is a list headed by neither
\* quasiquote nor unquote).
QqInLoop ==
    /\ Running /\ Top.kind = "qq" /\ Top.pc \in {"start", "loop"}
    /\ IsList(Top.s) /\ ~HeadedBy(Top.s, "quasiquote") /\ ~HeadedBy(Top.s, "unquote")
\* Line 343: r.extend(v) raises for the value of the element just walked.
ExtendFails ==
    /\ Top.vals # <<>> /\ Top.depth = 1
    /\ IsSplice(Top.s.e[Len(Top.vals)]) /\ ~IsList(Top.vals[Len(Top.vals)])

\* Lines 340-347: the next element x of t.
QqElement ==
    /\ QqInLoop /\ ~ExtendFails /\ Len(Top.vals) < Len(Top.s.e)
    /\ LET x == Top.s.e[Len(Top.vals) + 1] IN
         IF IsSplice(x) /\ Len(x.e) < 2 THEN Raise(Exc("IndexError"))
         ELSE /\ stack' =
                   IF IsSplice(x)
                   THEN IF Top.depth = 1
                        THEN Call("loop", EvalFrame(x.e[2], Top.scope, FALSE))
                        ELSE Call("loop", QqFrame(x.e[2], Top.scope, Top.depth - 1))
                   ELSE Call("loop", QqFrame(x, Top.scope, Top.depth))
              /\ UNCHANGED <<ctl, exc, r>>
    /\ UNCHANGED <<symvars, rdvars, other>>
    /\ UNCHANGED <<impl, expanded, prog, progid, glob, scopes, functions, stdout, stderr>>

\* Line 343: the value to splice is no list.
QqExtendFails ==
    /\ QqInLoop /\ ExtendFails
    /\ Raise(Exc("TypeError"))
    /\ UNCHANGED <<symvars, rdvars, other>>
    /\ UNCHANGED <<impl, expanded, prog, progid, glob, scopes, functions, stdout, stderr>>

\* Line 348: return r.
QqListReturn ==
    /\ QqInLoop /\ ~ExtendFails /\ Len(Top.vals) = Len(Top.s.e)
    /\ Return(L(Assemble(Top.s, Top.depth, Top.vals, Len(Top.s.e))))
    /\ UNCHANGED <<symvars, rdvars, other>>
    /\ UNCHANGED <<impl, expanded, prog, progid, glob, scopes, functions, stdout, stderr>>

\* An exception leaves qq, which has no handler.
QqUnwind ==
    /\ Raising /\ Top.kind = "qq"
    /\ stack' = SubSeq(stack, 1, Len(stack) - 1)
    /\ UNCHANGED <<symvars, rdvars, other>>
    /\ UNCHANGED <<impl, expanded, prog, progid, glob, scopes, functions, ctl, exc, r, stdout, stderr>>

\* ------------------------------------------------------------------ Function.apply
\* A call scope hung under Globals, whatever scope the function closed over.
ApplyScopeUnderGlobals(f) == NewScope(1)

\* Line 429: scope = Scope(self.scope).
ApplyScope(f) == NewScope(f.scope)

\* Lines 429-443: the new scope and the parameter bindings, or the failed
\* assert.
ApplyEnter ==
    /\ Running /\ Top.kind = "apply" /\ Top.pc = "bind"
    /\ LET f == functions[Top.fn.i]
           b == ApplyBind(f, Top.args)
       IN  /\ scopes' = Append(scopes, [ApplyScope(f) EXCEPT !.symbols = b.symbols])
           /\ stderr' = stderr \o b.warns
           /\ IF b.err # ""
              THEN Raise(Exc(b.err))
              ELSE /\ stack' = SetTop([Top EXCEPT !.scope = Len(scopes) + 1, !.pc = "body"])
                   /\ UNCHANGED <<ctl, exc, r>>
    /\ UNCHANGED <<symvars, rdvars, other>>
    /\ UNCHANGED <<impl, expanded, prog, progid, glob, functions, stdout>>

\* An apply that gives its flag to every body form.
BodyTailEveryForm(j, nb, tail) == tail

\* The tail flag Function.apply gives body form j of nb (lines 446-448).
BodyTail(j, nb, tail) == IF j = nb THEN tail ELSE FALSE

\* Lines 445-448: the next body form, in the call's own scope.
ApplyBodyForm ==
    /\ Running /\ Top.kind = "apply" /\ Top.pc = "body"
    /\ LET body == functions[Top.fn.i].body
           j == Len(Top.vals) + 1
       IN  /\ j <= Len(body)
           /\ stack' = Call("body", EvalFrame(body[j], Top.scope, BodyTail(j, Len(body), Top.tail)))
    /\ UNCHANGED <<symvars, rdvars, other>>
    /\ UNCHANGED <<impl, expanded, prog, progid, glob, scopes, functions, ctl, exc, r, stdout, stderr>>

\* The value Function.apply returns: r = None, or the last body form's.
ApplyResult(body, vals) == IF body = <<>> THEN Nil ELSE vals[Len(body)]

\* Lines 444 and 449: return r.
ApplyReturn ==
    /\ Running /\ Top.kind = "apply" /\ Top.pc = "body"
    /\ Len(Top.vals) = Len(functions[Top.fn.i].body)
    /\ Return(ApplyResult(functions[Top.fn.i].body, Top.vals))
    /\ UNCHANGED <<symvars, rdvars, other>>
    /\ UNCHANGED <<impl, expanded, prog, progid, glob, scopes, functions, stdout, stderr>>

\* An exception leaves Function.apply, which has no handler.
ApplyUnwind ==
    /\ Raising /\ Top.kind = "apply"
    /\ stack' = SubSeq(stack, 1, Len(stack) - 1)
    /\ UNCHANGED <<symvars, rdvars, other>>
    /\ UNCHANGED <<impl, expanded, prog, progid, glob, scopes, functions, ctl, exc, r, stdout, stderr>>

\* ------------------------------------------------------------------ except
\* A handler that hands every TailCall on, whatever the frame's tail flag.
ReraisesTailCallAlways(tail) == TRUE

\* Line 391: `if tail: raise`, whether the frame hands the TailCall on.
ReraisesTailCall(tail) == tail

\* Lines 390-392: a TailCall reaches a frame in tail position, which lets
\* it pass.
EvalReraiseTailCall ==
    /\ Raising /\ Top.kind = "eval" /\ exc.type = "TailCall"
    /\ Top.pc # "tramp" /\ ReraisesTailCall(Top.tail)
    /\ stack' = SubSeq(stack, 1, Len(stack) - 1)
    /\ UNCHANGED <<symvars, rdvars, other>>
    /\ UNCHANGED <<impl, expanded, prog, progid, glob, scopes, functions, ctl, exc, r, stdout, stderr>>

\* Lines 393-399 with TailCall.apply (62-70): the frame keeps the TailCall
\* as `a` and runs a.apply(): a Function is applied with tail=True, a host
\* callable is called; a TailCall raised by that call comes back here.
EvalTrampoline ==
    /\ Raising /\ Top.kind = "eval" /\ exc.type = "TailCall"
    /\ Top.pc = "tramp" \/ ~ReraisesTailCall(Top.tail)
    /\ LET me == [Top EXCEPT !.pc = "tramp", !.vals = <<>>, !.fn = exc.fn, !.args = exc.args]
           res == IF exc.fn.k = "host" THEN HostCall(exc.fn.n, exc.args, stdout)
                  ELSE [err |-> "TypeError", v |-> Nil, out |-> stdout]
       IN  IF IsFunction(exc.fn)
           THEN /\ stack' = Append(SetTop(me), ApplyFrame(exc.fn, exc.args, TRUE))
                /\ ctl' = "run" /\ exc' = NoExc
                /\ UNCHANGED <<r, stdout>>
           ELSE /\ stdout' = res.out
                /\ IF res.err = "" THEN Return(res.v)
                   ELSE /\ stack' = SetTop(me)
                        /\ exc' = Exc(res.err)
                        /\ UNCHANGED <<ctl, r>>
    /\ UNCHANGED <<symvars, rdvars, other>>
    /\ UNCHANGED <<impl, expanded, prog, progid, glob, scopes, functions, stderr>>

\* Lines 400-402: any other exception raised by the frame's own evaluation:
\* print "* <form>" and raise it again.
EvalExcept ==
    /\ Raising /\ Top.kind = "eval" /\ exc.type # "TailCall" /\ Top.pc # "tramp"
    /\ stdout' = Append(stdout, [kind |-> "diag", v |-> Top.s])
    /\ stack' = SubSeq(stack, 1, Len(stack) - 1)
    /\ UNCHANGED <<symvars, rdvars, other>>
    /\ UNCHANGED <<impl, expanded, prog, progid, glob, scopes, functions, ctl, exc, r, stderr>>

\* A loop that catches what a.apply() raises and returns None.
EvalTrampolineSwallows ==
    /\ Raising /\ Top.kind = "eval" /\ exc.type # "TailCall" /\ Top.pc = "tramp"
    /\ Return(Nil)
    /\ UNCHANGED <<symvars, rdvars, other>>
    /\ UNCHANGED <<impl, expanded, prog, progid, glob, scopes, functions, stdout, stderr>>

\* An exception raised by a.apply() inside the `except TailCall` clause
\* (lines 394-399): the clause at line 400 belongs to the same try statement
\* and does not see it.
EvalExceptInTrampoline ==
    /\ Raising /\ Top.kind = "eval" /\ exc.type # "TailCall" /\ Top.pc = "tramp"
    /\ stack' = SubSeq(stack, 1, Len(stack) - 1)
    /\ UNCHANGED <<symvars, rdvars, other>>
    /\ UNCHANGED <<impl, expanded, prog, progid, glob, scopes, functions, ctl, exc, r, stdout, stderr>>

\* ------------------------------------------------------------------ macroexpand_r
\* The heads macroexpand_r treats itself (lines 496-505).
MxSpecialHeads == {"lambda", "quote", "quasiquote", "unquote", "unquote-splicing"}

\* A filter `if x` in place of `if x is not None`.
RECURSIVE FilterFalsy(_)
FilterFalsy(vs) ==
    IF vs = <<>> THEN <<>>
    ELSE IF ~Truthy(Head(vs)) THEN FilterFalsy(Tail(vs))
    ELSE <<Head(vs)>> \o FilterFalsy(Tail(vs))

\* [x for x in [...] if x is not None]
RECURSIVE FilterNone(_)
FilterNone(vs) ==
    IF vs = <<>> THEN <<>>
    ELSE IF Head(vs) = Nil THEN FilterNone(Tail(vs))
    ELSE <<Head(vs)>> \o FilterNone(Tail(vs))

\* `return v` in a macroexpand_r frame: to the macroexpand_r that called
\* it, or to psil(), which keeps it as p.
MxReturn(v) ==
    /\ stack' = IF Len(stack) = 1 THEN <<>>
                ELSE [SubSeq(stack, 1, Len(stack) - 1)
                        EXCEPT ![Len(stack) - 1].vals = Append(@, v)]
    /\ expanded' = IF Len(stack) = 1 THEN <<v>> ELSE expanded
    /\ UNCHANGED <<ctl, exc, r>>

MxAt(pc) == Running /\ Top.kind = "mx" /\ Top.pc = pc
\* p is a list whose head is a symbol (line 495).
SymbolHeaded(p) == IsList(p) /\ Len(p.e) > 0 /\ IsSym(p.e[1])

\* Lines 514-515: what is no list is returned as it is.
MxAtom ==
    /\ MxAt("start") /\ ~IsList(Top.s)
    /\ MxReturn(Top.s)
    /\ UNCHANGED <<symvars, rdvars, other>>
    /\ UNCHANGED <<impl, prog, progid, glob, scopes, functions, stdout, stderr>>

\* Lines 496-497: (lambda PARAMS BODY...), the next of p[2:].
MxLambdaChild ==
    /\ Running /\ Top.kind = "mx" /\ Top.pc \in {"start", "lambda"}
    /\ HeadedBy(Top.s, "lambda")
    /\ Len(Top.vals) < Len(Top.s.e) - 2
    /\ stack' = Call("lambda", MxFrame(Top.s.e[Len(Top.vals) + 3], Top.depth, Top.quoted))
    /\ UNCHANGED <<symvars, rdvars, other>>
    /\ UNCHANGED <<impl, prog, expanded, progid, glob, scopes, functions, ctl, exc, r, stdout, stderr>>

\* Line 497: p[:2] and the expanded body forms that are not None.
MxLambdaReturn ==
    /\ Running /\ Top.kind = "mx" /\ Top.pc \in {"start", "lambda"}
    /\ HeadedBy(Top.s, "lambda")
    /\ Len(Top.vals) >= Len(Top.s.e) - 2
    /\ MxReturn(L(Take(Top.s.e, 2) \o FilterNone(Top.vals)))
    /\ UNCHANGED <<symvars, rdvars, other>>
    /\ UNCHANGED <<impl, prog, progid, glob, scopes, functions, stdout, stderr>>

\* The depth and the quoted flag the operand of a quote, quasiquote,
\* unquote or unquote-splicing is expanded with (lines 499, 501, 505).
OperandDepth(head, depth) ==
    IF head = "quasiquote" THEN depth + 1
    ELSE IF head = "quote" THEN depth ELSE depth - 1
OperandQuoted(head, quoted) ==
    IF head = "quote" THEN TRUE
    ELSE IF head = "quasiquote" THEN quoted ELSE FALSE

\* Lines 498-505: the operand p[1] of quote, quasiquote, unquote and
\* unquote-splicing; `raise "invalid unquote depth"` raises a TypeError, a
\* str being no exception.
MxWrap ==
    /\ MxAt("start") /\ SymbolHeaded(Top.s)
    /\ Top.s.e[1].n \in MxSpecialHeads \ {"lambda"}
    /\ LET head == Top.s.e[1].n IN
         IF head \in {"unquote", "unquote-splicing"} /\ Top.depth <= 0
         THEN Raise(Exc("TypeError"))
         ELSE IF Len(Top.s.e) < 2 THEN Raise(Exc("IndexError"))
         ELSE /\ stack' = Call("wrap", MxFrame(Top.s.e[2], OperandDepth(head, Top.depth),
                                               OperandQuoted(head, Top.quoted)))
              /\ UNCHANGED <<ctl, exc, r>>
    /\ UNCHANGED <<symvars, rdvars, other>>
    /\ UNCHANGED <<impl, prog, expanded, progid, glob, scopes, functions, stdout, stderr>>

\* Lines 499, 501, 505: return [p[0], expanded operand].
MxWrapReturn ==
    /\ MxAt("wrap") /\ Len(Top.vals) = 1
    /\ MxReturn(L(<<Top.s.e[1], Top.vals[1]>>))
    /\ UNCHANGED <<symvars, rdvars, other>>
    /\ UNCHANGED <<impl, prog, progid, glob, scopes, functions, stdout, stderr>>

\* Line 506: p = macroexpand(p) is called.
MxCallsMacroexpand(f) ==
    /\ f.pc = "start" /\ SymbolHeaded(f.s) /\ f.s.e[1].n \notin MxSpecialHeads
    /\ f.depth = 0 /\ ~f.quoted

\* macroexpand, lines 473-478, one turn of its loop: a head that Globals
\* binds to a Macro is applied to the unevaluated operands; anything else
\* ends the loop, and line 508 returns a p that is no list.
MxMacroexpand ==
    /\ Running /\ Top.kind = "mx"
    /\ MxCallsMacroexpand(Top) \/ Top.pc = "macro"
    /\ LET l == IF SymbolHeaded(Top.s) THEN ScopeLookup(scopes, 1, Top.s.e[1].n)
                ELSE [found |-> FALSE, value |-> Nil]
       IN  IF l.found /\ IsMacro(l.value)
           THEN /\ stack' = Call("applied", ApplyFrame(l.value, Tail(Top.s.e), FALSE))
                /\ UNCHANGED <<expanded, ctl, exc, r>>
           ELSE IF ~IsList(Top.s) THEN MxReturn(Top.s)
           ELSE /\ stack' = SetTop([Top EXCEPT !.pc = "children"])
                /\ UNCHANGED <<expanded, ctl, exc, r>>
    /\ UNCHANGED <<symvars, rdvars, other>>
    /\ UNCHANGED <<impl, prog, progid, glob, scopes, functions, stdout, stderr>>

\* Line 476: p = f(*p[1:]), the macro has returned.
MxMacroResult ==
    /\ MxAt("applied") /\ Len(Top.vals) = 1
    /\ stack' = SetTop([Top EXCEPT !.s = Top.vals[1], !.vals = <<>>, !.pc = "macro"])
    /\ UNCHANGED <<symvars, rdvars, other>>
    /\ UNCHANGED <<impl, prog, expanded, progid, glob, scopes, functions, ctl, exc, r, stdout, stderr>>

\* The frame is at lines 509-512: p is a list, and no branch above returned.
MxAtChildren(f) ==
    \/ f.pc = "children"
    \/ /\ f.pc = "start" /\ IsList(f.s)
       /\ ~(SymbolHeaded(f.s) /\ f.s.e[1].n \in MxSpecialHeads)
       /\ ~MxCallsMacroexpand(f)

\* Line 510: the next element of p, with the frame's depth and quoted flag.
MxChild ==
    /\ Running /\ Top.kind = "mx" /\ MxAtChildren(Top)
    /\ ~Top.quoted /\ Len(Top.vals) < Len(Top.s.e)
    /\ stack' = Call("children", MxFrame(Top.s.e[Len(Top.vals) + 1], Top.depth, Top.quoted))
    /\ UNCHANGED <<symvars, rdvars, other>>
    /\ UNCHANGED <<impl, prog, expanded, progid, glob, scopes, functions, ctl, exc, r, stdout, stderr>>

\* Lines 510 and 512: the expanded elements that are not None; a quoted p
\* as it is.
MxChildrenReturn ==
    /\ Running /\ Top.kind = "mx" /\ MxAtChildren(Top)
    /\ Top.quoted \/ Len(Top.vals) = Len(Top.s.e)
    /\ MxReturn(IF Top.quoted THEN Top.s ELSE L(FilterNone(Top.vals)))
    /\ UNCHANGED <<symvars, rdvars, other>>
    /\ UNCHANGED <<impl, prog, progid, glob, scopes, functions, stdout, stderr>>

\* An exception leaves macroexpand_r, which has no handler.
MxUnwind ==
    /\ Raising /\ Top.kind = "mx"
    /\ stack' = SubSeq(stack, 1, Len(stack) - 1)
    /\ UNCHANGED <<symvars, rdvars, other>>
    /\ UNCHANGED <<impl, prog, expanded, progid, glob, scopes, functions, ctl, exc, r, stdout, stderr>>

\* ------------------------------------------------------------------ psil
\* Lines 641-646: p = parse(t); p = macroexpand_r(p).
PsilExpand ==
    /\ ctl = "run" /\ stack = <<>> /\ expanded = <<>> /\ prog # <<>>
    /\ stack' = <<MxFrame(Head(prog), 0, FALSE)>>
    /\ prog' = Tail(prog)
    /\ UNCHANGED <<symvars, rdvars, other>>
    /\ UNCHANGED <<impl, expanded, progid, glob, scopes, functions, ctl, exc, r, stdout, stderr>>

\* Lines 647-648: a form that expanded to None is passed over.
PsilSkip ==
    /\ ctl = "run" /\ stack = <<>> /\ expanded = <<Nil>>
    /\ expanded' = <<>>
    /\ UNCHANGED <<symvars, rdvars, other>>
    /\ UNCHANGED <<impl, prog, progid, glob, scopes, functions, stack, ctl, exc, r, stdout, stderr>>

\* A psil() that evaluates each form in a scope of its own under Globals.
PsilEvalInOwnScope ==
    /\ ctl = "run" /\ stack = <<>> /\ expanded # <<>> /\ expanded # <<Nil>>
    /\ scopes' = Append(ScopeSetglobals(scopes, 1, glob), NewScope(1))
    /\ stack' = <<EvalFrame(expanded[1], Len(scopes) + 1, FALSE)>>
    /\ expanded' = <<>>
    /\ UNCHANGED <<symvars, rdvars, other>>
    /\ UNCHANGED <<impl, prog, progid, glob, functions, ctl, exc, r, stdout, stderr>>

\* Lines 664-666: Globals.setglobals(glob), then Globals.eval(p).
PsilEval ==
    /\ ctl = "run" /\ stack = <<>> /\ expanded # <<>> /\ expanded # <<Nil>>
    /\ scopes' = ScopeSetglobals(scopes, 1, glob)
    /\ stack' = <<EvalFrame(expanded[1], 1, FALSE)>>
    /\ expanded' = <<>>
    /\ UNCHANGED <<symvars, rdvars, other>>
    /\ UNCHANGED <<impl, prog, progid, glob, functions, ctl, exc, r, stdout, stderr>>

\* Lines 644-645 and 669: no form is left.
PsilDone ==
    /\ ctl = "run" /\ stack = <<>> /\ expanded = <<>> /\ prog = <<>>
    /\ ctl' = "done"
    /\ UNCHANGED <<symvars, rdvars, other>>
    /\ UNCHANGED <<impl, expanded, prog, progid, glob, scopes, functions, stack, exc, r, stdout, stderr>>

\* Lines 667-668: psil() applies a TailCall that reaches it; any other
\* exception leaves psil().
PsilExcept ==
    /\ ctl = "exc" /\ stack = <<>>
    /\ IF exc.type = "TailCall" /\ IsFunction(exc.fn)
       THEN /\ stack' = <<ApplyFrame(exc.fn, exc.args, TRUE)>>
            /\ ctl' = "run" /\ exc' = NoExc
       ELSE /\ ctl' = "uncaught"
            /\ UNCHANGED <<stack, exc>>
    /\ UNCHANGED <<symvars, rdvars, other>>
    /\ UNCHANGED <<impl, expanded, prog, progid, glob, scopes, functions, r, stdout, stderr>>

\* ------------------------------------------------------------------ Symbol
\* A Symbol object is its place in symobjs, which holds its name; names is
\* the dict Symbol.names.
\* A Symbol.new that constructs a Symbol on every call.
SymbolNewAlways(nms, objs, name) ==
    [names |-> DictSet(nms, name, Len(objs) + 1), objs |-> Append(objs, name),
     obj |-> Len(objs) + 1]

\* Symbol.new(name): the interned object, constructed and entered if the
\* name is new.
SymbolNew(nms, objs, name) ==
    IF name \in DOMAIN nms
    THEN [names |-> nms, objs |-> objs, obj |-> nms[name]]
    ELSE [names |-> DictSet(nms, name, Len(objs) + 1), objs |-> Append(objs, name),
          obj |-> Len(objs) + 1]

\* "_g_%d" % Symbol.gensym_counter
GensymName(n) == "_g_" \o ToString(n)

\* The names interpreter.py interns when it is imported (lines 187-196).
InternedAtImport ==
    <<"quote", "quasiquote", "unquote", "unquote-splicing",
      "define", "defmacro", "if", "lambda", "set!">>

RECURSIVE InternAll(_, _)
InternAll(seq, acc) ==
    IF seq = <<>> THEN acc
    ELSE InternAll(Tail(seq), SymbolNew(acc.names, acc.objs, Head(seq)))

\* Symbol names a source text or a string handed to string->symbol may hold.
SourceNames == {"a", "quote", "_g_1", "_g_2"}

\* The record of one interner call: what was asked, the object returned,
\* how many objects existed before, and the counter after.
Logged(op, res, cnt) ==
    [op |-> op, name |-> res.objs[res.obj], obj |-> res.obj,
     before |-> Len(symobjs), n |-> cnt]

\* parse, lines 240-241: a SYMBOL token becomes Symbol.new(v).
ReaderSymbol ==
    /\ Len(symlog) < MaxSymOps
    /\ \E nm \in SourceNames :
         LET res == SymbolNew(names, symobjs, nm) IN
         /\ names' = res.names
         /\ symobjs' = res.objs
         /\ symlog' = Append(symlog, Logged("read", res, gensym_counter))
    /\ UNCHANGED gensym_counter
    /\ UNCHANGED <<evalvars, rdvars>>

\* string->symbol, line 596: Symbol.new(x).
StringToSymbol ==
    /\ Len(symlog) < MaxSymOps
    /\ \E nm \in SourceNames :
         LET res == SymbolNew(names, symobjs, nm) IN
         /\ names' = res.names
         /\ symobjs' = res.objs
         /\ symlog' = Append(symlog, Logged("string->symbol", res, gensym_counter))
    /\ UNCHANGED gensym_counter
    /\ UNCHANGED <<evalvars, rdvars>>

\* Symbol.gensym, symbol.py lines 16-18.
Gensym ==
    /\ Len(symlog) < MaxSymOps
    /\ gensym_counter' = gensym_counter + 1
    /\ LET res == SymbolNew(names, symobjs, GensymName(gensym_counter + 1)) IN
         /\ names' = res.names
         /\ symobjs' = res.objs
         /\ symlog' = Append(symlog, Logged("gensym", res, gensym_counter + 1))
    /\ UNCHANGED <<evalvars, rdvars>>

\* ------------------------------------------------------------------ reader
MaxLen == 3
MaxTokens == 4

\* The characters of the symbol names and of the strings the reader runs
\* use; a text is a sequence of characters.
SymbolChars(name) ==
    CASE name = "a" -> <<"a">>
      [] name = "@a" -> <<"@", "a">>
      [] name = "quote" -> <<"q", "u", "o", "t", "e">>
      [] name = "unquote" -> <<"u", "n", "q", "u", "o", "t", "e">>
      [] name = "unquote-splicing" ->
           <<"u", "n", "q", "u", "o", "t", "e", "-", "s", "p", "l", "i", "c", "i", "n", "g">>
      [] name = "None" -> <<"N", "o", "n", "e">>
      [] name = "a;a" -> <<"a", ";", "a">>
      [] OTHER -> <<"?">>
ReaderNames == {"a", "@a", "quote", "unquote", "unquote-splicing"}
TextNames == ReaderNames \cup {"None", "a;a"}
StringChars(str) ==
    CASE str = "" -> <<>>
      [] str = "s" -> <<"s">>
      [] str = "a\"" -> <<"a", "\"">>
      [] str = "\\n" -> <<"\\", "n">>
      [] str = "\n" -> <<"\n">>
      [] str = ";" -> <<";">>
      [] OTHER -> <<"?">>
ReaderStrings == {"", "s", "a\"", "\\n", "\n"}
TextStrings == ReaderStrings \cup {";"}
\* The symbol name, the string, with these characters.
NameOf(cs) ==
    IF \E n \in TextNames : SymbolChars(n) = cs
    THEN CHOOSE n \in TextNames : SymbolChars(n) = cs ELSE "?"
StringOf(cs) ==
    IF \E n \in TextStrings : StringChars(n) = cs
    THEN CHOOSE n \in TextStrings : StringChars(n) = cs ELSE "?"

\* The backquote character, which a string of this module cannot hold.
Backquote == "BQ"

Digits == {"0", "1", "2", "3", "4", "5", "6", "7", "8", "9"}
DigitValue(c) == CHOOSE d \in 0..9 : ToString(d) = c
\* \w, for the characters in use.
WordChars ==
    Digits \cup {"N", "a", "c", "e", "g", "i", "l", "n", "o", "p", "q", "s", "t", "u"}

\* str(x) for the integer x >= 0, line 632.
RECURSIVE DecimalChars(_)
DecimalChars(n) ==
    IF n < 10 THEN <<ToString(n)>> ELSE DecimalChars(n \div 10) \o <<ToString(n % 10)>>

\* re.sub('"', r'\"', x), line 631.
RECURSIVE EscapeQuotes(_)
EscapeQuotes(cs) ==
    IF cs = <<>> THEN <<>>
    ELSE (IF Head(cs) = "\"" THEN <<"\\", "\"">> ELSE <<Head(cs)>>) \o EscapeQuotes(Tail(cs))

\* external(x), lines 616-632: the text, or the exception raised.
RECURSIVE External(_)
RECURSIVE ExternalJoin(_, _)
\* " ".join(external(i) for i in x)
ExternalJoin(xs, j) ==
    IF j > Len(xs) THEN [err |-> "", text |-> <<>>]
    ELSE LET first == External(xs[j])
             more == ExternalJoin(xs, j + 1)
         IN  IF first.err # "" THEN first
             ELSE IF more.err # "" THEN more
             ELSE [err |-> "",
                   text |-> first.text \o (IF j < Len(xs) THEN <<" ">> ELSE <<>>) \o more.text]
SugarOf(head) ==
    CASE head = "quote" -> <<"'">>
      [] head = "quasiquote" -> <<Backquote>>
      [] head = "unquote" -> <<",">>
      [] OTHER -> <<",", "@">>
SugarHeads == {"quote", "quasiquote", "unquote", "unquote-splicing"}
External(x) ==
    IF IsList(x)
    THEN IF Len(x.e) > 0 /\ IsSym(x.e[1]) /\ x.e[1].n \in SugarHeads
         THEN IF Len(x.e) < 2 THEN [err |-> "IndexError", text |-> <<>>]
              ELSE LET in == External(x.e[2]) IN
                   IF in.err # "" THEN in
                   ELSE [err |-> "", text |-> SugarOf(x.e[1].n) \o in.text]
         ELSE LET in == ExternalJoin(x.e, 1) IN
              IF in.err # "" THEN in
              ELSE [err |-> "", text |-> <<"(">> \o in.text \o <<")">>]
    ELSE IF IsSym(x) THEN [err |-> "", text |-> SymbolChars(x.n)]
    ELSE IF x.k = "str"
         THEN [err |-> "", text |-> <<"\"">> \o EscapeQuotes(StringChars(x.n)) \o <<"\"">>]
    ELSE IF x.k = "int" THEN [err |-> "", text |-> DecimalChars(x.i)]
    ELSE [err |-> "", text |-> <<"N", "o", "n", "e">>]

\* A token (kind, value, position), the position left out; the generator
\* raising is the last thing it does, kept as a last entry of kind RAISE.
Token(t, v) == [t |-> t, v |-> v]
Raises(type) == Token("RAISE", Str(type))

\* peval of a string literal's body: the escapes \" \\ \n; a backslash
\* before any other character of the texts in use stays.
RECURSIVE Unescape(_)
Unescape(cs) ==
    IF cs = <<>> THEN <<>>
    ELSE IF Head(cs) = "\\" /\ Len(cs) >= 2
         THEN (CASE cs[2] = "\"" -> <<"\"">>
                 [] cs[2] = "\\" -> <<"\\">>
                 [] cs[2] = "n" -> <<"\n">>
                 [] OTHER -> <<"\\", cs[2]>>)
              \o Unescape(Drop(cs, 2))
    ELSE <<Head(cs)>> \o Unescape(Tail(cs))

\* RE_STRING at s[i] = '"' (lines 27-38, the alternative that is not
\* triple-quoted): the index of the closing quote, 0 when there is no match.
RECURSIVE StringEnd(_, _)
StringEnd(s, j) ==
    IF j > Len(s) THEN 0
    ELSE IF s[j] = "\\" THEN (IF j + 1 > Len(s) THEN 0 ELSE StringEnd(s, j + 2))
    ELSE IF s[j] = "\"" THEN (IF j + 1 <= Len(s) /\ s[j + 1] = "\"" THEN 0 ELSE j)
    ELSE StringEnd(s, j + 1)

\* The end of the run of digits, of symbol characters, that starts at i.
RECURSIVE DigitsEnd(_, _)
DigitsEnd(s, j) == IF j + 1 <= Len(s) /\ s[j + 1] \in Digits THEN DigitsEnd(s, j + 1) ELSE j
RECURSIVE SymbolEnd(_, _)
SymbolEnd(s, j) ==
    IF j + 1 <= Len(s) /\ s[j + 1] \notin {" ", "\n", "(", ")"} THEN SymbolEnd(s, j + 1) ELSE j
RECURSIVE Decimal(_, _)
Decimal(cs, acc) == IF cs = <<>> THEN acc ELSE Decimal(Tail(cs), 10 * acc + DigitValue(Head(cs)))

\* s.index("\n", i + 1) of line 165: the index of the first newline after
\* index i, 0 when there is none (ValueError).
RECURSIVE IndexOfNewline(_, _)
IndexOfNewline(s, j) ==
    IF j > Len(s) THEN 0 ELSE IF s[j] = "\n" THEN j ELSE IndexOfNewline(s, j + 1)

\* tokenise(s), lines 91-188, from index i on: everything the generator
\* yields.  The texts in use hold no tab and no three double quotes in a
\* row.
RECURSIVE Tokenise(_, _)
Tokenise(s, i) ==
    IF i > Len(s) THEN <<>>
    ELSE LET c == s[i] IN
         IF c \in {" ", "\n"} THEN Tokenise(s, i + 1)
         ELSE IF c = "(" THEN <<Token("LPAREN", Nil)>> \o Tokenise(s, i + 1)
         ELSE IF c = ")" THEN <<Token("RPAREN", Nil)>> \o Tokenise(s, i + 1)
         ELSE IF c = "'" THEN <<Token("QUOTE", Nil)>> \o Tokenise(s, i + 1)
         ELSE IF c = Backquote THEN <<Token("QQUOTE", Nil)>> \o Tokenise(s, i + 1)
         ELSE IF c = ","
              THEN IF i + 1 > Len(s) THEN <<Raises("IndexError")>>
                   ELSE IF s[i + 1] = "@" THEN <<Token("SPLICE", Nil)>> \o Tokenise(s, i + 2)
                   ELSE <<Token("COMMA", Nil)>> \o Tokenise(s, i + 1)
         ELSE IF c = "\""
              THEN LET j == StringEnd(s, i + 1) IN
                   IF j = 0 THEN <<Raises("SyntaxError")>>
                   ELSE IF \E k \in (i + 1)..(j - 1) : s[k] = "\n"
                        THEN <<Raises("SyntaxError")>>
                   ELSE <<Token("STRING", Str(StringOf(Unescape(SubSeq(s, i + 1, j - 1)))))>>
                        \o Tokenise(s, j + 1)
         ELSE IF c = ";"
              THEN IF IndexOfNewline(s, i + 1) = 0 THEN <<Raises("ValueError")>>
                   ELSE Tokenise(s, IndexOfNewline(s, i + 1))
         ELSE IF c \in Digits /\ ~(DigitsEnd(s, i) + 1 <= Len(s)
                                    /\ s[DigitsEnd(s, i) + 1] \in WordChars)
              THEN <<Token("NUMBER", Num(Decimal(SubSeq(s, i, DigitsEnd(s, i)), 0)))>>
                   \o Tokenise(s, DigitsEnd(s, i) + 1)
         ELSE <<Token("SYMBOL", Sym(NameOf(SubSeq(s, i, SymbolEnd(s, i)))))>>
              \o Tokenise(s, SymbolEnd(s, i) + 1)

\* What parse does when the generator is exhausted inside a list.
UnclosedReturnsTheList(a) == [err |-> "", v |-> L(a), rest |-> <<>>]
\* Lines 222-223: raise SyntaxError("unclosed parenthesis").
Unclosed(a) == [err |-> "unclosed parenthesis", v |-> Nil, rest |-> <<>>]

TagOf(t) ==
    CASE t = "QUOTE" -> "quote"
      [] t = "QQUOTE" -> "quasiquote"
      [] t = "COMMA" -> "unquote"
      [] OTHER -> "unquote-splicing"

\* parse(tokens, nextoken), lines 198-243: the value returned or the
\* exception raised, and what is left in the generator.
RECURSIVE Parse(_)
RECURSIVE ParseToken(_, _)
RECURSIVE ParseList(_, _)
\* Lines 211-215: nextoken is None; an exhausted generator gives None.
Parse(ts) ==
    IF ts = <<>> THEN [err |-> "", v |-> Nil, rest |-> <<>>]
    ELSE ParseToken(Head(ts), Tail(ts))
\* Lines 216-243, for the token nextoken.
ParseToken(tok, ts) ==
    LET prefixed == Parse(ts) IN
    CASE tok.t = "RAISE" -> [err |-> tok.v.n, v |-> Nil, rest |-> <<>>]
      [] tok.t = "LPAREN" -> ParseList(<<>>, ts)
      [] tok.t \in {"STRING", "NUMBER", "SYMBOL"} -> [err |-> "", v |-> tok.v, rest |-> ts]
      [] tok.t \in {"QUOTE", "QQUOTE", "COMMA", "SPLICE"} ->
           IF prefixed.err # "" THEN prefixed
           ELSE [err |-> "", v |-> L(<<Sym(TagOf(tok.t)), prefixed.v>>), rest |-> prefixed.rest]
      [] OTHER -> [err |-> "unexpected token", v |-> Nil, rest |-> ts]
\* Lines 218-227: the loop that collects the list a.
ParseList(a, ts) ==
    IF ts = <<>> THEN Unclosed(a)
    ELSE IF Head(ts).t = "RPAREN" THEN [err |-> "", v |-> L(a), rest |-> Tail(ts)]
    ELSE LET item == ParseToken(Head(ts), Tail(ts)) IN
         IF item.err # "" THEN item ELSE ParseList(Append(a, item.v), item.rest)

\* s = F written without the sugar: every sequence in parentheses.
RECURSIVE Written(_)
RECURSIVE WrittenJoin(_, _)
WrittenJoin(xs, j) ==
    IF j > Len(xs) THEN <<>>
    ELSE Written(xs[j]) \o (IF j < Len(xs) THEN <<" ">> ELSE <<>>) \o WrittenJoin(xs, j + 1)
Written(x) ==
    IF IsList(x) THEN <<"(">> \o WrittenJoin(x.e, 1) \o <<")">>
    ELSE External(x).text

\* tokenise(s): the generator is made; nothing runs before the first next().
ReaderTokenise ==
    /\ rdpc = "text"
    /\ tokens' = Tokenise(rdtext, 1)
    /\ rdlog' = <<>>
    /\ rdpc' = "tokens"
    /\ UNCHANGED <<rdtext, rdform>>
    /\ UNCHANGED <<evalvars, symvars>>

\* One call parse(tokens), as read() and the loop of psil() make it.
ReaderParse ==
    /\ rdpc = "tokens"
    /\ LET res == Parse(tokens) IN
         /\ rdlog' = Append(rdlog, [err |-> res.err, v |-> res.v, from |-> tokens])
         /\ tokens' = res.rest
         /\ rdpc' = IF res.err # "" THEN "raised"
                    ELSE IF res.v = Nil THEN "end" ELSE "tokens"
    /\ UNCHANGED <<rdtext, rdform>>
    /\ UNCHANGED <<evalvars, symvars>>

\* external(F) for the form F the first parse call returned.
ReaderExternal ==
    /\ rdpc \in {"end", "tokens"} /\ rdform = <<>>
    /\ Len(rdlog) >= 1 /\ tokens = <<>>
    /\ rdlog[1].err = "" /\ rdlog[1].v # Nil
    /\ LET x == External(rdlog[1].v) IN
         /\ rdform' = <<rdlog[1].v>>
         /\ rdtext' = x.text
         /\ rdpc' = IF x.err # "" THEN "raised" ELSE "text"
    /\ UNCHANGED <<tokens, rdlog>>
    /\ UNCHANGED <<evalvars, symvars>>

\* The atoms and the sequences the reader runs start from.
ReaderAtoms ==
    {Num(1), Num(20)} \cup {Sym(n) : n \in ReaderNames} \cup {Str(n) : n \in ReaderStrings \ {"\n"}}
ReaderLists(atoms, len) == {L(e) : e \in UNION {[1..n -> atoms] : n \in 0..len}}
ReaderForms ==
    ReaderAtoms
    \cup ReaderLists(ReaderAtoms, MaxLen)
    \cup ReaderLists(ReaderLists({Sym("a"), Sym("quote"), Sym("unquote")}, 2), 2)
    \cup {L(<<h, x>>) : h \in {Sym("quote"), Sym("unquote"), Sym("unquote-splicing"), Sym("a")},
                        x \in ReaderLists(ReaderAtoms, 2)}
\* Texts with comments, with a comma last and with a semicolon inside a
\* symbol and inside a string:
\*    a ;a\na     a ;a     ;a\n     ;     a;a     (a ;a\n)     (a ;(\n)
\*    ,     (a ,     ,@a     ,a     ";"     1 ;1     ;\n;
CommentTexts ==
    { <<"a", " ", ";", "a", "\n", "a">>,
      <<"a", " ", ";", "a">>,
      <<";", "a", "\n">>,
      <<";">>,
      <<"a", ";", "a">>,
      <<"(", "a", " ", ";", "a", "\n", ")">>,
      <<"(", "a", " ", ";", "(", "\n", ")">>,
      <<",">>,
      <<"(", "a", " ", ",">>,
      <<",", "@", "a">>,
      <<",", "a">>,
      <<"\"", ";", "\"">>,
      <<"1", " ", ";", "1">>,
      <<";", "\n", ";">> }
\* The token streams parse is called on directly.
ReaderTokens ==
    {Token(t, Nil) : t \in {"LPAREN", "RPAREN", "QUOTE", "SPLICE"}}
    \cup {Token("SYMBOL", Sym("a")), Token("NUMBER", Num(1))}
TokenStreams ==
    UNION {[1..n -> ReaderTokens] : n \in 0..MaxTokens}
    \cup {Append(ts, Raises("IndexError")) : ts \in UNION {[1..n -> ReaderTokens] : n \in 0..2}}

\* ------------------------------------------------------------------ programs
\* The texts handed to psil(), as the forms the reader yields for them.
Call2(f, a) == L(<<f, a>>)
Call3(f, a, b) == L(<<f, a, b>>)
Define(head, body) == L(<<Sym("define"), head>> \o body)
If3(c, t, e) == L(<<Sym("if"), c, t, e>>)
Lambda(params, body) == L(<<Sym("lambda"), params>> \o body)
PrintForm(i) == Call2(Sym("print"), Num(i))
Dec(x) == Call3(Sym("-"), Sym(x), Num(1))
IsZero(x) == Call3(Sym("=="), Sym(x), Num(0))

\* (define (sum-to n acc) (if (== n 0) acc (sum-to (- n 1) (+ acc n))))
\* (sum-to N 0)
SumTo(cnt) ==
    << Define(L(<<Sym("sum-to"), Sym("n"), Sym("acc")>>),
              << If3(IsZero("n"), Sym("acc"),
                     Call3(Sym("sum-to"), Dec("n"), Call3(Sym("+"), Sym("acc"), Sym("n")))) >>),
       Call3(Sym("sum-to"), Num(cnt), Num(0)) >>

\* (define (ev n) (if (== n 0) 1 (od (- n 1))))
\* (define (od n) (if (== n 0) 0 (ev (- n 1))))
\* (ev N)
EvenOdd(cnt) ==
    << Define(L(<<Sym("ev"), Sym("n")>>),
              << If3(IsZero("n"), Num(1), Call2(Sym("od"), Dec("n"))) >>),
       Define(L(<<Sym("od"), Sym("n")>>),
              << If3(IsZero("n"), Num(0), Call2(Sym("ev"), Dec("n"))) >>),
       Call2(Sym("ev"), Num(cnt)) >>

\* (define (tri n) (define m n) (if (== n 0) 0 (+ (tri (- n 1)) m)))
\* (tri N)
Tri(cnt) ==
    << Define(L(<<Sym("tri"), Sym("n")>>),
              << Define(Sym("m"), <<Sym("n")>>),
                 If3(IsZero("n"), Num(0),
                     Call3(Sym("+"), Call2(Sym("tri"), Dec("n")), Sym("m"))) >>),
       Call2(Sym("tri"), Num(cnt)) >>

\* (define x 10)
\* (define (f P) ((lambda (Q) (set! T 7) RD) 2))
\* (f 1)
\* RD
ScopeProg(p, q, t, rd) ==
    << Define(Sym("x"), <<Num(10)>>),
       Define(L(<<Sym("f"), Sym(p)>>),
              << Call2(Lambda(L(<<Sym(q)>>),
                              << L(<<Sym("set!"), Sym(t), Num(7)>>), Sym(rd) >>),
                       Num(2)) >>),
       Call2(Sym("f"), Num(1)),
       Sym(rd) >>

\* The parameter specifications of the binding programs.
ParamSpecs ==
    { Sym("r"),
      L(<<>>),
      L(<<Sym("a")>>),
      L(<<Sym("a"), Sym("b")>>),
      L(<<Sym("a"), L(<<Sym("o"), Sym("b")>>)>>),
      L(<<L(<<Sym("o"), Sym("a")>>)>>),
      L(<<Sym("."), Sym("r")>>),
      L(<<Sym("a"), Sym("."), Sym("r")>>),
      L(<<Sym("a"), Sym("b"), Sym("."), Sym("r")>>),
      L(<<Sym("a"), L(<<Sym("o"), Sym("b")>>), Sym("."), Sym("r")>>),
      L(<<L(<<Sym("o"), Sym("a")>>), Sym("b")>>),
      L(<<Sym("a"), Sym("a")>>),
      L(<<Sym("a"), Sym("."), Sym("a")>>) }

\* The arguments 1 .. cnt.
NumArgs(cnt) == [j \in 1..cnt |-> Num(j)]

\* ((lambda PARAMS 0) 1 ... N)
BindProg(ps, cnt) == << L(<<Lambda(ps, <<Num(0)>>)>> \o NumArgs(cnt)) >>

\* (print FROM) ... (print FROM+CNT-1)
PrintForms(from, cnt) == [j \in 1..cnt |-> PrintForm(from + j - 1)]

\* The call whose head, NA arguments and NB body forms each print their
\* place in the order of the text; the body ends with the number 100:
\*   ((if (print 1) 0 (lambda args (print NA+2) ... 100)) (print 2) ...)
OrderCall(na, nb) ==
    L(<< If3(PrintForm(1), Num(0),
             Lambda(Sym("args"),
                    IF nb = 0 THEN <<>> ELSE Append(PrintForms(na + 2, nb - 1), Num(100)))) >>
      \o PrintForms(2, na))

\* The call at top level, or as the last form of a function's body:
\*   (define (g) CALL) (g)
OrderProg(na, nb, wrapped) ==
    IF wrapped
    THEN << Define(L(<<Sym("g")>>), <<OrderCall(na, nb)>>), L(<<Sym("g")>>) >>
    ELSE << OrderCall(na, nb) >>

\* (define x 1) (define (g) x) (define (f x) (g)) (f 2)
\* (define (mk x) (lambda () x)) ((mk 5))
\* (define (h) (define loc 3) loc) (h) loc
LexicalProg ==
    << Define(Sym("x"), <<Num(1)>>),
       Define(L(<<Sym("g")>>), <<Sym("x")>>),
       Define(L(<<Sym("f"), Sym("x")>>), <<L(<<Sym("g")>>)>>),
       Call2(Sym("f"), Num(2)),
       Define(L(<<Sym("mk"), Sym("x")>>), <<Lambda(L(<<>>), <<Sym("x")>>)>>),
       L(<<Call2(Sym("mk"), Num(5))>>),
       Define(L(<<Sym("h")>>), <<Define(Sym("loc"), <<Num(3)>>), Sym("loc")>>),
       L(<<Sym("h")>>),
       Sym("loc") >>

\* Programs that end in an error, one per kind, and two that do not.
\*   1: (define (f) (g)) (define (g) (h)) (f)      h is not defined
\*   2: (set! 5 1)
\*   3: (5 (print 1))
\*   4: (define (f) (5 (print 1))) (f)
\*   5: (define (f) (print 1)) (f) :key "s" '(a) (define x 1) (define x 2)
\*   6: (define (f) 1) (define (g) (f)) (list (g))
\*   7: (define (f) (5 (print 1))) (list (f))
\*   8: (define (g) (h)) (define (f) (g)) (list (f))   h is not defined
\*   9: (define x 1) (define (f) (define x 2) (define x 3) x) (f) x
MiscProg(j) ==
    CASE j = 1 -> << Define(L(<<Sym("f")>>), <<L(<<Sym("g")>>)>>),
                     Define(L(<<Sym("g")>>), <<L(<<Sym("h")>>)>>),
                     L(<<Sym("f")>>) >>
      [] j = 2 -> << L(<<Sym("set!"), Num(5), Num(1)>>) >>
      [] j = 3 -> << Call2(Num(5), PrintForm(1)) >>
      [] j = 4 -> << Define(L(<<Sym("f")>>), <<Call2(Num(5), PrintForm(1))>>),
                     L(<<Sym("f")>>) >>
      [] j = 7 -> << Define(L(<<Sym("f")>>), <<Call2(Num(5), PrintForm(1))>>),
                     Call2(Sym("list"), L(<<Sym("f")>>)) >>
      [] j = 8 -> << Define(L(<<Sym("g")>>), <<L(<<Sym("h")>>)>>),
                     Define(L(<<Sym("f")>>), <<L(<<Sym("g")>>)>>),
                     Call2(Sym("list"), L(<<Sym("f")>>)) >>
      [] j = 9 -> << Define(Sym("x"), <<Num(1)>>),
                     Define(L(<<Sym("f")>>),
                            << Define(Sym("x"), <<Num(2)>>), Define(Sym("x"), <<Num(3)>>),
                               Sym("x") >>),
                     L(<<Sym("f")>>),
                     Sym("x") >>
      [] j = 6 -> << Define(L(<<Sym("f")>>), <<Num(1)>>),
                     Define(L(<<Sym("g")>>), <<L(<<Sym("f")>>)>>),
                     Call2(Sym("list"), L(<<Sym("g")>>)) >>
      [] OTHER -> << Define(L(<<Sym("f")>>), <<PrintForm(1)>>),
                     L(<<Sym("f")>>),
                     Sym(":key"), Str("s"), Call2(Sym("quote"), L(<<Sym("a")>>)),
                     Define(Sym("x"), <<Num(1)>>), Define(Sym("x"), <<Num(2)>>) >>

\* '(X), `(X), ,(X), ,@(X) as the reader yields them.
Quote(x) == L(<<Sym("quote"), x>>)
Quasi(x) == L(<<Sym("quasiquote"), x>>)
Unq(x) == L(<<Sym("unquote"), x>>)
Splice(x) == L(<<Sym("unquote-splicing"), x>>)

\* (define (p n) (print n) n)
\* (define (pl n) (print n) (list n (+ n 10)))
\* (define x 42)
QqDefs ==
    << Define(L(<<Sym("p"), Sym("n")>>), <<Call2(Sym("print"), Sym("n")), Sym("n")>>),
       Define(L(<<Sym("pl"), Sym("n")>>),
              <<Call2(Sym("print"), Sym("n")),
                Call3(Sym("list"), Sym("n"), Call3(Sym("+"), Sym("n"), Num(10)))>>),
       Define(Sym("x"), <<Num(42)>>) >>
P(i) == Call2(Sym("p"), Num(i))
Pl(i) == Call2(Sym("pl"), Num(i))

\* The templates of the quasiquote programs:
\*   1: (a `(b ,(+ 1 2) ,,x))          2: (a ,(p 1) `(b ,(p 2) ,,(p 3)))
\*   3: (1 ,@(pl 2) 3 ,@(pl 4))        4: (a `(b ,@,(p 1)) ,@(pl 2))
\*   5: (1 ,@5)                        6: (,@(pl 1) (b ,(p 2) ,@(pl 3)) ,(p 4))
\*   7: (a unquote (p 1))
\*   8: (,@() 1 ,@(list))
QqTemplate(j) ==
    CASE j = 1 -> L(<<Sym("a"), Quasi(L(<<Sym("b"), Unq(Call3(Sym("+"), Num(1), Num(2))),
                                           Unq(Unq(Sym("x")))>>))>>)
      [] j = 2 -> L(<<Sym("a"), Unq(P(1)), Quasi(L(<<Sym("b"), Unq(P(2)), Unq(Unq(P(3)))>>))>>)
      [] j = 3 -> L(<<Num(1), Splice(Pl(2)), Num(3), Splice(Pl(4))>>)
      [] j = 4 -> L(<<Sym("a"), Quasi(L(<<Sym("b"), Splice(Unq(P(1)))>>)), Splice(Pl(2))>>)
      [] j = 5 -> L(<<Num(1), Splice(Num(5))>>)
      [] j = 6 -> L(<<Splice(Pl(1)), L(<<Sym("b"), Unq(P(2)), Splice(Pl(3))>>), Unq(P(4))>>)
      [] j = 7 -> L(<<Sym("a"), Sym("unquote"), P(1)>>)
      [] OTHER -> L(<<Splice(L(<<>>)), Num(1), Splice(L(<<Sym("list")>>))>>)
QqTemplates == 1..8

\* DEFS `TEMPLATE
QqProg(j) == QqDefs \o << Quasi(QqTemplate(j)) >>

\* DEFS (define (f) `TEMPLATE) (list (f) (f))
QqTwiceProg(j) ==
    QqDefs \o << Define(L(<<Sym("f")>>), <<Quasi(QqTemplate(j))>>),
                 Call3(Sym("list"), L(<<Sym("f")>>), L(<<Sym("f")>>)) >>

\* What a template nests its one expression in, outermost first.
Wrappers == {"quasiquote", "unquote", "unquote-splicing", "list"}
Chains == UNION {[1..n -> Wrappers] : n \in 0..MaxN}
RECURSIVE Wrapped(_, _)
Wrapped(ws, leaf) ==
    IF ws = <<>> THEN leaf
    ELSE LET inner == Wrapped(Tail(ws), leaf) IN
         CASE Head(ws) = "quasiquote" -> Quasi(inner)
           [] Head(ws) = "unquote" -> Unq(inner)
           [] Head(ws) = "unquote-splicing" -> Splice(inner)
           [] OTHER -> L(<<Sym("a"), inner>>)

\* DEFS `W1(W2(...(pl 1)))
QqChainProg(ws) == QqDefs \o << Quasi(Wrapped(ws, Pl(1))) >>

\* Forms that are ill-formed for macroexpand_r or for the evaluator:
\*   1: (quasiquote)     2: `(a (unquote))     3: ,x     4: `(a ,@x ,,x)
QqBadProg(j) ==
    QqDefs \o
    << CASE j = 1 -> L(<<Sym("quasiquote")>>)
         [] j = 2 -> Quasi(L(<<Sym("a"), L(<<Sym("unquote")>>)>>))
         [] j = 3 -> Unq(Sym("x"))
         [] OTHER -> Quasi(L(<<Sym("a"), Splice(Sym("x")), Unq(Unq(Sym("x")))>>)) >>

\* (defmacro m (x) (list '+ x 1))
\* (defmacro q (x) (list 'quote x))
\* (defmacro nothing ())
\* (defmacro twice (x) (list 'm (list 'm x)))
\* (defmacro bad (x) (undefined-fn))
Defmacro(name, params, body) == L(<<Sym("defmacro"), Sym(name), params>> \o body)
M(x) == Call2(Sym("m"), x)
MacroDefs ==
    << Defmacro("m", L(<<Sym("x")>>),
                <<L(<<Sym("list"), Quote(Sym("+")), Sym("x"), Num(1)>>)>>),
       Defmacro("q", L(<<Sym("x")>>),
                <<Call3(Sym("list"), Quote(Sym("quote")), Sym("x"))>>),
       Defmacro("nothing", L(<<>>), <<>>),
       Defmacro("twice", L(<<Sym("x")>>),
                <<Call3(Sym("list"), Quote(Sym("m")),
                        Call3(Sym("list"), Quote(Sym("m")), Sym("x")))>>),
       Defmacro("bad", L(<<Sym("x")>>), <<L(<<Sym("undefined-fn")>>)>>),
       Defmacro("bq", L(<<Sym("x")>>),
                <<Call3(Sym("list"), Quote(Sym("quasiquote")),
                        Call3(Sym("list"), Quote(Sym("unquote")), Sym("x")))>>),
       Defmacro("mk", L(<<>>),
                <<Quote(Lambda(L(<<Sym("m"), Sym("y")>>), <<M(Sym("y"))>>))>>) >>

\* The forms of the macro programs:
\*    1: (m 2)                         2: (twice 1)
\*    3: (list 1 (nothing) 2)          4: (nothing)
\*    5: (bad 1)                       6: ((lambda (y) (m y)) 5)
\*    7: `(a ,(m 2) ,@(list (m 3)))    8: (m)
\*    9: (if (m 2) (twice 3) (q x))   10: `(a `(b ,(m 1) ,,(m 2)))
\*   11: `(a '(b ,(m 2)))             12: '(a `(b ,(m 2)))
\*   13: (lambda (m) (m 2) (nothing))  14: (bq 1)
\*   15: (list (bq 1))                 16: '(a ,(m 2))
\*   17: (mk)                          18: (list (mk))
MacroForm(j) ==
    CASE j = 1 -> M(Num(2))
      [] j = 2 -> Call2(Sym("twice"), Num(1))
      [] j = 3 -> L(<<Sym("list"), Num(1), L(<<Sym("nothing")>>), Num(2)>>)
      [] j = 4 -> L(<<Sym("nothing")>>)
      [] j = 5 -> Call2(Sym("bad"), Num(1))
      [] j = 6 -> Call2(Lambda(L(<<Sym("y")>>), <<M(Sym("y"))>>), Num(5))
      [] j = 7 -> Quasi(L(<<Sym("a"), Unq(M(Num(2))),
                            Splice(Call2(Sym("list"), M(Num(3))))>>))
      [] j = 8 -> L(<<Sym("m")>>)
      [] j = 9 -> If3(M(Num(2)), Call2(Sym("twice"), Num(3)), Call2(Sym("q"), Sym("x")))
      [] j = 10 -> Quasi(L(<<Sym("a"), Quasi(L(<<Sym("b"), Unq(M(Num(1))),
                                                 Unq(Unq(M(Num(2))))>>))>>))
      [] j = 11 -> Quasi(L(<<Sym("a"), Quote(L(<<Sym("b"), Unq(M(Num(2)))>>))>>))
      [] j = 12 -> Quote(L(<<Sym("a"), Quasi(L(<<Sym("b"), Unq(M(Num(2)))>>))>>))
      [] j = 13 -> Lambda(L(<<Sym("m")>>), <<M(Num(2)), L(<<Sym("nothing")>>)>>)
      [] j = 14 -> Call2(Sym("bq"), Num(1))
      [] j = 15 -> Call2(Sym("list"), Call2(Sym("bq"), Num(1)))
      [] j = 16 -> Quote(L(<<Sym("a"), Unq(M(Num(2)))>>))
      [] j = 17 -> L(<<Sym("mk")>>)
      [] OTHER -> Call2(Sym("list"), L(<<Sym("mk")>>))
MacroForms == 1..18

\* Programs that use the macro m before, in and after the form that
\* defines it:
\*   1: (lambda () (m 2)) (defmacro m (x) (if 0 (m x) (list '+ x 1))) (m 2)
\*   2: (define (f) (m 2)) (defmacro m (x) (list '+ x 1)) (list (m 2)) (f)
MacroOrderProg(j) ==
    IF j = 1
    THEN << Lambda(L(<<>>), <<M(Num(2))>>),
            Defmacro("m", L(<<Sym("x")>>),
                     <<If3(Num(0), M(Sym("x")),
                           L(<<Sym("list"), Quote(Sym("+")), Sym("x"), Num(1)>>))>>),
            M(Num(2)) >>
    ELSE << Define(L(<<Sym("f")>>), <<M(Num(2))>>),
            Defmacro("m", L(<<Sym("x")>>),
                     <<L(<<Sym("list"), Quote(Sym("+")), Sym("x"), Num(1)>>)>>),
            Call2(Sym("list"), M(Num(2))),
            L(<<Sym("f")>>) >>

\* What a macro program nests the call (m 2) in, outermost first: ' ` ,
\* (list ...) and the macro q, which expands to a quote.
MacroWrappers == {"quote", "quasiquote", "unquote", "list", "q"}
MacroChains == UNION {[1..n -> MacroWrappers] : n \in 1..MaxN}
RECURSIVE MacroWrapped(_)
MacroWrapped(ws) ==
    IF ws = <<>> THEN M(Num(2))
    ELSE LET inner == MacroWrapped(Tail(ws)) IN
         CASE Head(ws) = "quote" -> Quote(inner)
           [] Head(ws) = "quasiquote" -> Quasi(inner)
           [] Head(ws) = "unquote" -> Unq(inner)
           [] Head(ws) = "q" -> Call2(Sym("q"), inner)
           [] OTHER -> Call2(Sym("list"), inner)

NoGlob == [installed |-> FALSE, table |-> EmptyDict]
\* A host table that binds z, and x as well.
HostGlob == [installed |-> TRUE,
             table |-> [nm \in {"x", "z"} |-> IF nm = "x" THEN Num(30) ELSE Num(20)]]

\* What identifies a program: its family and the family's parameters.
ProgId(fam, n, m, w, p, q, t, rd, ps) ==
    [fam |-> fam, n |-> n, m |-> m, w |-> w, p |-> p, q |-> q, t |-> t, rd |-> rd, ps |-> ps]

Programs ==
    { [id |-> ProgId("sumto", n, 0, FALSE, "", "", "", "", Nil),
       forms |-> SumTo(n), glob |-> NoGlob] : n \in 0..MaxN }
    \cup
    { [id |-> ProgId("evenodd", n, 0, FALSE, "", "", "", "", Nil),
       forms |-> EvenOdd(n), glob |-> NoGlob] : n \in 0..MaxN }
    \cup
    { [id |-> ProgId("tri", n, 0, FALSE, "", "", "", "", Nil),
       forms |-> Tri(n), glob |-> NoGlob] : n \in 0..MaxN }
    \cup
    { [id |-> ProgId("scope", 0, 0, g.installed, x[1], x[2], x[3], x[4], Nil),
       forms |-> ScopeProg(x[1], x[2], x[3], x[4]), glob |-> g] :
         x \in {"x", "y"} \X {"x", "y"} \X {"x", "y", "z"} \X {"x", "y", "z"},
         g \in {NoGlob, HostGlob} }
    \cup
    { [id |-> ProgId("bind", n, 0, FALSE, "", "", "", "", ps),
       forms |-> BindProg(ps, n), glob |-> NoGlob] :
         ps \in ParamSpecs, n \in 0..MaxArgs }
    \cup
    { [id |-> ProgId("order", na, nb, w, "", "", "", "", Nil),
       forms |-> OrderProg(na, nb, w), glob |-> NoGlob] :
         na \in 0..MaxArgs, nb \in 0..MaxArgs, w \in BOOLEAN }
    \cup
    { [id |-> ProgId("lexical", 0, 0, FALSE, "", "", "", "", Nil),
       forms |-> LexicalProg, glob |-> NoGlob] }
    \cup
    { [id |-> ProgId("misc", j, 0, FALSE, "", "", "", "", Nil),
       forms |-> MiscProg(j), glob |-> NoGlob] : j \in 1..9 }
    \cup
    { [id |-> ProgId("qq", j, 0, w, "", "", "", "", QqTemplate(j)),
       forms |-> IF w THEN QqTwiceProg(j) ELSE QqProg(j), glob |-> NoGlob] :
         j \in QqTemplates, w \in BOOLEAN }
    \cup
    { [id |-> ProgId("qqchain", Len(ws), 0, FALSE, "", "", "", "", Wrapped(ws, Pl(1))),
       forms |-> QqChainProg(ws), glob |-> NoGlob] : ws \in Chains }
    \cup
    { [id |-> ProgId("qqbad", j, 0, FALSE, "", "", "", "", Nil),
       forms |-> QqBadProg(j), glob |-> NoGlob] : j \in 1..4 }
    \cup
    { [id |-> ProgId("macro", j, 0, FALSE, "", "", "", "", MacroForm(j)),
       forms |-> MacroDefs \o <<MacroForm(j), Num(7)>>, glob |-> NoGlob] : j \in MacroForms }
    \cup
    { [id |-> ProgId("macroorder", j, 0, FALSE, "", "", "", "", Nil),
       forms |-> MacroOrderProg(j), glob |-> NoGlob] : j \in 1..2 }
    \cup
    { [id |-> ProgId("macrochain", Len(ws), 0, FALSE, "", "", "", "", MacroWrapped(ws)),
       forms |-> MacroDefs \o <<MacroWrapped(ws)>>, glob |-> NoGlob] : ws \in MacroChains }

\* Two psil() calls on one interpreter, each with its text and its glob:
\*   1: (define (f) z) (f)   with the host table,  then  (f)
\*   2: (defmacro mz () z)   with the host table,  then  (mz)
\*   3: (define (f) z)       with the host table,  then  the empty text
\*   4: (defmacro mz () z),  then  (mz)  with the host table
\*   5: (defmacro nothing ())  with the host table,  then  (nothing)
\*   6: (define (f) z) (f)   with the host table,  then  (f)  with it again
CallPair(j) ==
    LET deff == Define(L(<<Sym("f")>>), <<Sym("z")>>)
        callf == L(<<Sym("f")>>)
        defmz == Defmacro("mz", L(<<>>), <<Sym("z")>>)
    IN  CASE j = 1 -> [first |-> <<deff, callf>>, firstglob |-> HostGlob,
                       second |-> <<callf>>, secondglob |-> NoGlob]
          [] j = 2 -> [first |-> <<defmz>>, firstglob |-> HostGlob,
                       second |-> <<L(<<Sym("mz")>>)>>, secondglob |-> NoGlob]
          [] j = 3 -> [first |-> <<deff>>, firstglob |-> HostGlob,
                       second |-> <<>>, secondglob |-> NoGlob]
          [] j = 4 -> [first |-> <<defmz>>, firstglob |-> NoGlob,
                       second |-> <<L(<<Sym("mz")>>)>>, secondglob |-> HostGlob]
          [] j = 5 -> [first |-> <<Defmacro("nothing", L(<<>>), <<>>)>>, firstglob |-> HostGlob,
                       second |-> <<L(<<Sym("nothing")>>)>>, secondglob |-> NoGlob]
          [] OTHER -> [first |-> <<deff, callf>>, firstglob |-> HostGlob,
                       second |-> <<callf>>, secondglob |-> HostGlob]
CallPairs == 1..6
\* The first calls; m counts the calls made.
CallPrograms ==
    { [id |-> ProgId("calls", j, 1, FALSE, "", "", "", "", Nil),
       forms |-> CallPair(j).first, glob |-> CallPair(j).firstglob] : j \in CallPairs }

\* The top-level forms of the program that id identifies.
FormsOf(id) ==
    CASE id.fam = "sumto" -> SumTo(id.n)
      [] id.fam = "evenodd" -> EvenOdd(id.n)
      [] id.fam = "tri" -> Tri(id.n)
      [] id.fam = "scope" -> ScopeProg(id.p, id.q, id.t, id.rd)
      [] id.fam = "bind" -> BindProg(id.ps, id.n)
      [] id.fam = "order" -> OrderProg(id.n, id.m, id.w)
      [] id.fam = "lexical" -> LexicalProg
      [] id.fam = "misc" -> MiscProg(id.n)
      [] id.fam = "qq" -> IF id.w THEN QqTwiceProg(id.n) ELSE QqProg(id.n)
      [] id.fam = "qqchain" -> QqDefs \o << Quasi(id.ps) >>
      [] id.fam = "qqbad" -> QqBadProg(id.n)
      [] id.fam = "macro" -> MacroDefs \o <<MacroForm(id.n), Num(7)>>
      [] id.fam = "macroorder" -> MacroOrderProg(id.n)
      [] id.fam = "calls" -> IF id.m = 1 THEN CallPair(id.n).first ELSE CallPair(id.n).second
      [] OTHER -> MacroDefs \o <<id.ps>>
\* The top-level forms of the text psil() was called with.
TextForms == FormsOf(progid)

\* ------------------------------------------------------------------ Init, Next
\* Globals = Scope() with the host library bound in Globals.symbols.
GlobalsScope == [NewScope(0) EXCEPT !.symbols = [nm \in HostNames |-> Host(nm)]]

\* No text is being read.
ReaderIdle ==
    /\ rdtext = <<>>
    /\ tokens = <<>>
    /\ rdlog = <<>>
    /\ rdform = <<>>
    /\ rdpc = "idle"

\* symbol.py lines 6-7, then the imports' Symbol.new calls.
InitSym ==
    LET t == InternAll(InternedAtImport, [names |-> EmptyDict, objs |-> <<>>, obj |-> 0]) IN
    /\ names = t.names
    /\ gensym_counter = 0
    /\ symobjs = t.objs
    /\ symlog = <<>>

Init ==
    /\ impl \in {"interpreter", "psil_py"}
    /\ \E pr \in Programs :
         /\ prog = pr.forms
         /\ progid = pr.id
         /\ glob = pr.glob
    /\ scopes = <<GlobalsScope>>
    /\ functions = <<>>
    /\ expanded = <<>>
    /\ stack = <<>>
    /\ ctl = "run"
    /\ exc = NoExc
    /\ r = Nil
    /\ stdout = <<>>
    /\ stderr = <<>>
    /\ other = <<>>
    /\ InitSym
    /\ ReaderIdle

Next ==
    \/ PsilExpand \/ PsilSkip \/ PsilEval \/ PsilDone \/ PsilExcept
    \/ MxAtom \/ MxLambdaChild \/ MxLambdaReturn \/ MxWrap \/ MxWrapReturn
    \/ MxMacroexpand \/ MxMacroResult \/ MxChild \/ MxChildrenReturn \/ MxUnwind
    \/ EvalDefmacro
    \/ EvalSelf \/ EvalSymbol \/ EvalQuote \/ EvalLambda
    \/ EvalDefineFunction \/ EvalDefineValue \/ EvalDefineBind
    \/ EvalIfCond \/ EvalIfArm
    \/ EvalSetValue \/ EvalSetAssign
    \/ EvalCallHead \/ EvalCallRefuse \/ EvalCallArg
    \/ EvalCallTail \/ EvalCallFunction \/ EvalCallHost
    \/ EvalReturnResult
    \/ EvalQuasiquote \/ QqAtom \/ QqNested \/ QqUnquote \/ QqReturn
    \/ QqElement \/ QqExtendFails \/ QqListReturn \/ QqUnwind
    \/ ApplyEnter \/ ApplyBodyForm \/ ApplyReturn \/ ApplyUnwind
    \/ EvalReraiseTailCall \/ EvalTrampoline
    \/ EvalExcept \/ EvalExceptInTrampoline

Spec == Init /\ [][Next]_vars

\* psil() called a second time on the same interpreter (lines 634-636):
\* t and r are new, Globals and what the first call left in it stay.
PsilCall ==
    /\ ctl \in {"done", "uncaught"} /\ stack = <<>>
    /\ progid.fam = "calls" /\ progid.m = 1
    /\ progid' = [progid EXCEPT !.m = 2]
    /\ prog' = CallPair(progid.n).second
    /\ glob' = CallPair(progid.n).secondglob
    /\ expanded' = <<>>
    /\ ctl' = "run"
    /\ exc' = NoExc
    /\ r' = Nil
    /\ UNCHANGED <<symvars, rdvars, other>>
    /\ UNCHANGED <<impl, scopes, functions, stack, stdout, stderr>>

\* Any program, or a first call that a second one follows.
InitCalls ==
    /\ impl \in {"interpreter", "psil_py"}
    /\ \E pr \in Programs \cup CallPrograms :
         /\ prog = pr.forms
         /\ progid = pr.id
         /\ glob = pr.glob
    /\ scopes = <<GlobalsScope>>
    /\ functions = <<>>
    /\ expanded = <<>>
    /\ stack = <<>>
    /\ ctl = "run"
    /\ exc = NoExc
    /\ r = Nil
    /\ stdout = <<>>
    /\ stderr = <<>>
    /\ other = <<>>
    /\ InitSym
    /\ ReaderIdle

NextCalls == Next \/ PsilCall

SpecCalls == InitCalls /\ [][NextCalls]_vars

\* What a psil() call that returned leaves to be seen: its value, what was
\* printed and warned, and the scopes and functions in the order they were
\* made.
Outcome ==
    [impl |-> impl, r |-> r, stdout |-> stdout, stderr |-> stderr,
     scopes |-> scopes, functions |-> functions]
\* The text psil() has returned from is given to psil() of the other file,
\* on an interpreter of its own (Globals as line 517 and the lines after it
\* make it).
PsilOnTheOtherEvaluator ==
    /\ ctl = "done" /\ stack = <<>> /\ other = <<>>
    /\ progid.fam # "calls"
    /\ other' = <<Outcome>>
    /\ impl' = IF impl = "interpreter" THEN "psil_py" ELSE "interpreter"
    /\ prog' = FormsOf(progid)
    /\ scopes' = <<GlobalsScope>>
    /\ functions' = <<>>
    /\ expanded' = <<>>
    /\ ctl' = "run"
    /\ exc' = NoExc
    /\ r' = Nil
    /\ stdout' = <<>>
    /\ stderr' = <<>>
    /\ UNCHANGED <<symvars, rdvars>>
    /\ UNCHANGED <<progid, glob, stack>>

NextBoth == Next \/ PsilOnTheOtherEvaluator

\* Every text that psil() returns from is run on both evaluators.
SpecBoth == Init /\ [][NextBoth]_vars

\* The interner alone: any sequence of reader, string->symbol and gensym
\* calls, with no program running.
InitInterner ==
    /\ impl = "interpreter"
    /\ prog = <<>>
    /\ progid = ProgId("none", 0, 0, FALSE, "", "", "", "", Nil)
    /\ glob = NoGlob
    /\ scopes = <<GlobalsScope>>
    /\ functions = <<>>
    /\ expanded = <<>>
    /\ stack = <<>>
    /\ ctl = "done"
    /\ exc = NoExc
    /\ r = Nil
    /\ stdout = <<>>
    /\ stderr = <<>>
    /\ other = <<>>
    /\ InitSym
    /\ ReaderIdle

NextInterner == ReaderSymbol \/ StringToSymbol \/ Gensym

SpecInterner == InitInterner /\ [][NextInterner]_vars

\* The reader alone: a form written out as text, read, printed by external
\* and read again; or parse called on a token stream until it ends.
InitReader ==
    /\ impl = "interpreter"
    /\ prog = <<>>
    /\ expanded = <<>>
    /\ progid = ProgId("none", 0, 0, FALSE, "", "", "", "", Nil)
    /\ glob = NoGlob
    /\ scopes = <<GlobalsScope>>
    /\ functions = <<>>
    /\ stack = <<>>
    /\ ctl = "done"
    /\ exc = NoExc
    /\ r = Nil
    /\ stdout = <<>>
    /\ stderr = <<>>
    /\ other = <<>>
    /\ InitSym
    /\ rdlog = <<>>
    /\ rdform = <<>>
    /\ \/ /\ \/ \E f \in ReaderForms : rdtext = Written(f)
             \/ rdtext \in CommentTexts
          /\ tokens = <<>>
          /\ rdpc = "text"
       \/ /\ rdtext = <<>>
          /\ tokens \in TokenStreams
          /\ rdpc = "tokens"

NextReader == ReaderTokenise \/ ReaderParse \/ ReaderExternal

SpecReader == InitReader /\ [][NextReader]_vars

\* ------------------------------------------------------------------ claims
SetMax(S) == IF S = {} THEN 0 ELSE CHOOSE x \in S : \A y \in S : y <= x

\* How deep the Scope.eval calls evaluating form s nest, applications apart.
RECURSIVE FormDepth(_)
FormDepth(s) ==
    IF IsList(s) /\ s.e # <<>>
    THEN 1 + SetMax({FormDepth(s.e[j]) : j \in DOMAIN s.e})
    ELSE 1

\* The frames one application takes under a trampolining frame: that frame,
\* the Function.apply frame, and the nesting of the deepest body form of the
\* functions defined so far.  The count of calls made is no part of it.
TailFrameBound ==
    2 + SetMax(UNION {{FormDepth(functions[f].body[j]) : j \in DOMAIN functions[f].body} :
                         f \in DOMAIN functions})

ActiveFrames == Len(stack)
TailRecursive == progid.fam \in {"sumto", "evenodd"}

\* C1: in src/psil/interpreter.py a chain of tail calls started from a
\* non-tail Scope.eval runs in the trampoline loop: the number of active
\* Scope.eval / Function.apply frames stays within a constant that does not
\* depend on how many tail calls are made ((sum-to n 0), (ev n) for every n).
C1_TailCallsKeepFramesBounded ==
    (impl = "interpreter" /\ TailRecursive) => ActiveFrames <= TailFrameBound

\* The same bound for the evaluator of src/psil.py, whose line 350 applies
\* with tail=True.
TailCallsKeepFramesBoundedPsilPy ==
    (impl = "psil_py" /\ TailRecursive) => ActiveFrames <= TailFrameBound

\* C2: Scope.eval entered with tail=False never raises TailCall to its
\* caller: a TailCall that reaches a non-tail frame is consumed there (the
\* frame stays, or returns a value), a frame that hands a TailCall on was
\* entered with tail=True, and no TailCall reaches psil().
C2_StepKeepsTailCall ==
    (Raising /\ exc.type = "TailCall" /\ Top.kind = "eval"
       /\ ctl' = "exc" /\ exc'.type = "TailCall" /\ Len(stack') < Len(stack))
    => Top.tail
C2_TailCallNeverLeavesNonTailEval ==
    /\ [](~(ctl \in {"exc", "uncaught"} /\ exc.type = "TailCall" /\ stack = <<>>))
    /\ [][C2_StepKeepsTailCall]_vars

\* A TailCall raised beneath an argument's (non-tail, nested) evaluation
\* frame has been taken by that frame's loop, which is applying it.
C2_Witness ==
    \E j \in 2..(Len(stack) - 1) :
        /\ stack[j].kind = "eval" /\ ~stack[j].tail /\ stack[j].pc = "tramp"
        /\ stack[j + 1].kind = "apply" /\ stack[j + 1].fn = stack[j].fn

\* The scopes on the parent chain of s, s included.
RECURSIVE Chain(_, _)
Chain(scs, s) == IF s = 0 THEN {} ELSE {s} \cup Chain(scs, scs[s].parent)
\* The scopes on the chain of s whose own table binds name, and the nearest
\* of them: the one every other is an ancestor of.
Binders(scs, s, name) == {t \in Chain(scs, s) : name \in DOMAIN scs[t].symbols}
NearestBinder(scs, s, name) ==
    CHOOSE t \in Binders(scs, s, name) : \A u \in Binders(scs, s, name) : u \in Chain(scs, t)
\* The root of the chain of s.
RootOf(scs, s) == CHOOSE t \in Chain(scs, s) : scs[t].parent = 0

\* (set! NAME VALUE) has its value and is about to call self.set.
AtSet == EvalAt("set", "set") /\ Len(Top.vals) = 1
SetName == Top.s.e[2].n

\* C3: after (set! x v) in scope S with x bound on S's chain, the nearest
\* binding of x is v; every other binding of x, every binding of another
\* name, and the set of names each scope binds (S's too) are as before.
C3_Step ==
    (AtSet /\ Binders(scopes, Top.scope, SetName) # {}) =>
        LET t == NearestBinder(scopes, Top.scope, SetName) IN
        /\ DOMAIN scopes' = DOMAIN scopes
        /\ scopes'[t].symbols[SetName] = Top.vals[1]
        /\ \A s \in DOMAIN scopes :
             /\ DOMAIN scopes'[s].symbols = DOMAIN scopes[s].symbols
             /\ \A nm \in DOMAIN scopes[s].symbols :
                  (s # t \/ nm # SetName) => scopes'[s].symbols[nm] = scopes[s].symbols[nm]
C3_SetUpdatesNearestBindingOnly == [][C3_Step]_vars

\* (set! x 7) ran two scopes below the call scope of (f x), which binds x,
\* while Globals binds x too: the call scope has 7, Globals still 10, and the
\* scope the set! ran in has no x.
C3_Witness ==
    /\ progid.fam = "scope" /\ progid.p = "x" /\ progid.q = "y" /\ progid.t = "x"
    /\ "x" \in DOMAIN scopes[1].symbols /\ scopes[1].symbols["x"] = Num(10)
    /\ \E s, c \in DOMAIN scopes :
         /\ scopes[s].parent = 1 /\ "x" \in DOMAIN scopes[s].symbols
         /\ scopes[s].symbols["x"] = Num(7)
         /\ scopes[c].parent = s /\ DOMAIN scopes[c].symbols = {"y"}

\* C4: Scope.set on a name no scope of the chain binds raises
\* UndefinedSymbolError and changes no scope's bindings and no fallback
\* table, also when the fallback table has the name; and no step of the
\* evaluator (Scope.set and Scope.define among them) writes a fallback table.
C4_Step ==
    /\ (AtSet /\ Binders(scopes, Top.scope, SetName) = {}) =>
          /\ ctl' = "exc" /\ exc'.type = "UndefinedSymbolError"
          /\ scopes' = scopes
    /\ glob' = glob
    /\ stack # <<>> =>
          \A s \in DOMAIN scopes :
             /\ scopes'[s].globals = scopes[s].globals
             /\ scopes'[s].hasglobals = scopes[s].hasglobals
C4_SetUnboundRaisesAndFallbackIsReadOnly == [][C4_Step]_vars

\* (set! z 7) has raised UndefinedSymbolError although the installed
\* fallback table has z, which is still 20.
C4_Witness ==
    /\ Raising /\ exc.type = "UndefinedSymbolError"
    /\ Top.kind = "eval" /\ FormKind(Top.s) = "set" /\ Top.pc = "set" /\ Len(Top.vals) = 1
    /\ Top.s.e[2].n = "z"
    /\ scopes[1].hasglobals /\ scopes[1].globals["z"] = Num(20) /\ glob.table["z"] = Num(20)
    /\ \A s \in DOMAIN scopes : "z" \notin DOMAIN scopes[s].symbols

\* What Scope.lookup is to return for name from scope s.
LookupExpected(scs, s, name) ==
    IF Binders(scs, s, name) # {}
    THEN [found |-> TRUE, value |-> scs[NearestBinder(scs, s, name)].symbols[name]]
    ELSE IF scs[RootOf(scs, s)].hasglobals /\ name \in DOMAIN scs[RootOf(scs, s)].globals
    THEN [found |-> TRUE, value |-> scs[RootOf(scs, s)].globals[name]]
    ELSE [found |-> FALSE, value |-> Nil]

\* Every name bound anywhere, and one bound nowhere.
NamesInUse ==
    UNION {DOMAIN scopes[s].symbols \cup DOMAIN scopes[s].globals : s \in DOMAIN scopes}
      \cup DOMAIN glob.table \cup {"nosuch"}

\* What the top frame's return hands its caller (psil() for the outermost).
Delivered == IF Len(stack) = 1 THEN r' ELSE stack'[Len(stack) - 1].vals[Len(stack'[Len(stack) - 1].vals)]

\* C5: Scope.lookup(name) finds the value of the nearest scope that binds
\* name; the fallback table is asked only after the root's own table, so any
\* scope's binding shadows it; nothing is found exactly when neither a scope
\* of the chain nor the installed fallback table binds name.  Evaluating a
\* symbol hands on the value found.
C5_LookupAgrees ==
    \A s \in DOMAIN scopes : \A nm \in NamesInUse :
        ScopeLookup(scopes, s, nm) = LookupExpected(scopes, s, nm)
C5_Step ==
    (EvalAt("symbol", "start") /\ LookupExpected(scopes, Top.scope, Top.s.n).found) =>
        /\ ctl' = "run" /\ Len(stack') = Len(stack) - 1
        /\ Delivered = LookupExpected(scopes, Top.scope, Top.s.n).value
C5_LookupNearestThenFallback == []C5_LookupAgrees /\ [][C5_Step]_vars

\* x, bound to 10 in Globals and to 30 in the installed fallback table, was
\* read two scopes below Globals as the value of (f 1): 10.
C5_Witness ==
    /\ ctl = "run" /\ stack = <<>> /\ Len(prog) = 1
    /\ progid.fam = "scope" /\ progid.rd = "x"
    /\ progid.p = "y" /\ progid.q = "y" /\ progid.t = "y"
    /\ scopes[1].hasglobals /\ scopes[1].globals["x"] = Num(30)
    /\ scopes[1].symbols["x"] = Num(10)
    /\ r = Num(10)

\* C6: after any sequence of Symbol.new and Symbol.gensym calls the interner
\* holds exactly one Symbol object per name: calls with equal names returned
\* the identical object, calls with distinct names distinct objects, and an
\* entry of Symbol.names is never replaced or removed.
C6_OneObjectPerName ==
    /\ \A i, j \in DOMAIN symobjs : symobjs[i] = symobjs[j] => i = j
    /\ \A nm \in DOMAIN names : names[nm] \in DOMAIN symobjs /\ symobjs[names[nm]] = nm
    /\ \A j \in DOMAIN symobjs : symobjs[j] \in DOMAIN names
    /\ \A i, j \in DOMAIN symlog :
          (symlog[i].name = symlog[j].name) <=> (symlog[i].obj = symlog[j].obj)
C6_EntriesStay ==
    \A nm \in DOMAIN names : nm \in DOMAIN names' /\ names'[nm] = names[nm]
C6_InternerHoldsOneObjectPerName == []C6_OneObjectPerName /\ [][C6_EntriesStay]_vars

\* The reader and string->symbol were both handed a, and an import-time name
\* was read again: the calls returned the objects of the earlier calls.
C6_Witness ==
    /\ \E i, j \in DOMAIN symlog :
         /\ i < j /\ symlog[i].op = "read" /\ symlog[j].op = "string->symbol"
         /\ symlog[i].name = "a" /\ symlog[j].name = "a" /\ symlog[i].obj = symlog[j].obj
    /\ \E i \in DOMAIN symlog : symlog[i].name = "quote" /\ symlog[i].obj = 1
    /\ \E i \in DOMAIN symlog : symlog[i].op = "gensym"

\* C7: every Symbol.gensym() call returns a fresh symbol, one that was not
\* interned before the call (by the reader, string->symbol or an earlier
\* gensym), named _g_<N> with N greater than in every earlier gensym call.
C7_GensymIsFresh ==
    \A j \in DOMAIN symlog :
        symlog[j].op = "gensym" =>
            /\ symlog[j].obj > symlog[j].before
            /\ symlog[j].name = GensymName(symlog[j].n)
            /\ \A i \in 1..(j - 1) : symlog[i].op = "gensym" => symlog[i].n < symlog[j].n

\* The part of C7 about the names alone: _g_<N> with N strictly increasing.
GensymNumbersIncrease ==
    \A j \in DOMAIN symlog :
        symlog[j].op = "gensym" =>
            /\ symlog[j].name = GensymName(symlog[j].n)
            /\ \A i \in 1..(j - 1) : symlog[i].op = "gensym" => symlog[i].n < symlog[j].n

\* Function.apply has its frame and is about to bind the parameters.
AtBind == Running /\ Top.kind = "apply" /\ Top.pc = "bind"
\* The bindings of the scope the step creates.
NewSymbols == scopes'[Len(scopes) + 1].symbols
\* Arguments k.. of a (counting from 0), in order.
RestArgs(a, k) == [j \in 1..(IF Len(a) > k THEN Len(a) - k ELSE 0) |-> a[k + j]]
BindFails(f, n) == n < f.fixed \/ (f.rest = Nil /\ n > Len(f.params))
\* The last listed parameter named nm; 0 if none is.
LastParam(f, nm) == SetMax({i \in DOMAIN f.params : f.params[i].n = nm})
BoundNames(f) ==
    {f.params[i].n : i \in DOMAIN f.params} \cup (IF f.rest = Nil THEN {} ELSE {f.rest.n})

\* C8 as stated: Function.apply with n arguments fails when n < fixed, and
\* when rest is absent and n > k; otherwise parameter i is bound to argument
\* i for i < min(n, k), parameters n..k-1 to nil, and rest (a single-symbol
\* spec is a rest with k = 0) to the list of arguments k..n-1.
C8_StepAsStated ==
    AtBind =>
        LET f == functions[Top.fn.i]
            a == Top.args
        IN  IF BindFails(f, Len(a))
            THEN ctl' = "exc" /\ exc'.type = "AssertionError"
            ELSE /\ ctl' = "run"
                 /\ \A i \in DOMAIN f.params :
                      /\ f.params[i].n \in DOMAIN NewSymbols
                      /\ NewSymbols[f.params[i].n] = IF i <= Len(a) THEN a[i] ELSE Nil
                 /\ f.rest # Nil =>
                      /\ f.rest.n \in DOMAIN NewSymbols
                      /\ NewSymbols[f.rest.n] = L(RestArgs(a, Len(f.params)))
C8_BindsEveryParameterAsStated == [][C8_StepAsStated]_vars

\* C8, amended: the same failures; otherwise the new scope binds exactly the
\* parameter names and the rest name, each name to the argument (or nil) of
\* the last listed parameter that has it, and the rest name, if no listed
\* parameter has it, to the list of arguments k..n-1.  With pairwise distinct
\* names this is the binding C8 states.
C8_Step ==
    AtBind =>
        LET f == functions[Top.fn.i]
            a == Top.args
        IN  IF BindFails(f, Len(a))
            THEN ctl' = "exc" /\ exc'.type = "AssertionError"
            ELSE /\ ctl' = "run"
                 /\ DOMAIN NewSymbols = BoundNames(f)
                 /\ \A nm \in BoundNames(f) :
                      NewSymbols[nm] =
                        IF LastParam(f, nm) = 0 THEN L(RestArgs(a, Len(f.params)))
                        ELSE IF LastParam(f, nm) <= Len(a) THEN a[LastParam(f, nm)]
                        ELSE Nil
C8_BindsParametersLastNameWins == [][C8_Step]_vars

\* ((lambda (a (o b) . r) 0) 1) has bound a to 1, b to nil and r to the
\* empty list.
C8_Witness ==
    /\ Running /\ Top.kind = "apply" /\ Top.pc = "body" /\ Top.vals = <<>>
    /\ progid.fam = "bind"
    /\ progid.ps = L(<<Sym("a"), L(<<Sym("o"), Sym("b")>>), Sym("."), Sym("r")>>)
    /\ Top.args = <<Num(1)>>
    /\ scopes[Top.scope].symbols =
         [nm \in {"a", "b", "r"} |->
            IF nm = "a" THEN Num(1) ELSE IF nm = "b" THEN Nil ELSE L(<<>>)]

\* The Function.apply frames of the stack that have their scope.
BodyFrames == {j \in DOMAIN stack : stack[j].kind = "apply" /\ stack[j].pc = "body"}

\* C9: each application binds its parameters in a newly created scope whose
\* parent is the function's defining scope: the scopes that existed are left
\* as they were, the call's scope is on the chain of no frame beneath it and
\* of no other call of the same function, a define in a body touches the
\* call's own scope only; hence (tri n) keeps one m per call, g's free x is
\* the x of Globals when f, which binds x, calls it, and loc defined inside
\* (h) is unbound at top level.
\* psil() is between two forms: the one before is evaluated, the next one
\* is not taken yet.
BetweenForms == stack = <<>> /\ expanded = <<>>
C9_Inv ==
    /\ \A j \in BodyFrames :
         /\ scopes[stack[j].scope].parent = functions[stack[j].fn.i].scope
         /\ \A i \in 1..(j - 1) : stack[j].scope \notin Chain(scopes, stack[i].scope)
         /\ \A i \in BodyFrames :
              (i # j /\ stack[i].fn = stack[j].fn) =>
                  stack[j].scope \notin Chain(scopes, stack[i].scope)
    /\ (progid.fam = "tri" /\ ctl = "done") => r = Num((progid.n * (progid.n + 1)) \div 2)
    /\ (progid.fam = "lexical" /\ Len(prog) = 5 /\ BetweenForms) => r = Num(1)
    /\ (progid.fam = "lexical" /\ Len(prog) = 3 /\ BetweenForms) => r = Num(5)
    /\ (progid.fam = "lexical" /\ Len(prog) = 1 /\ BetweenForms) => r = Num(3)
    /\ (progid.fam = "lexical" /\ Len(prog) = 0 /\ BetweenForms) =>
          ctl \in {"exc", "uncaught"} /\ exc.type = "UndefinedSymbolError"
C9_Step ==
    /\ AtBind =>
          /\ Len(scopes') = Len(scopes) + 1
          /\ SubSeq(scopes', 1, Len(scopes)) = scopes
          /\ scopes'[Len(scopes) + 1].parent = functions[Top.fn.i].scope
          /\ ctl' = "run" => stack'[Len(stack)].scope = Len(scopes) + 1
    /\ (EvalAt("define", "define") /\ Len(Top.vals) = 1) =>
          \A s \in DOMAIN scopes : s # Top.scope => scopes'[s] = scopes[s]
C9_EachCallHasItsOwnScopeUnderTheClosure == []C9_Inv /\ [][C9_Step]_vars

\* Two calls of tri are active, each with its own scope under Globals, and
\* the m each defined is its own.
C9_Witness ==
    /\ progid.fam = "tri"
    /\ \E i, j \in BodyFrames :
         /\ i < j /\ stack[i].fn = stack[j].fn /\ stack[i].scope # stack[j].scope
         /\ scopes[stack[i].scope].parent = 1 /\ scopes[stack[j].scope].parent = 1
         /\ "m" \in DOMAIN scopes[stack[i].scope].symbols
         /\ "m" \in DOMAIN scopes[stack[j].scope].symbols
         /\ scopes[stack[i].scope].symbols["m"] # scopes[stack[j].scope].symbols["m"]

\* What (print 1) ... (print cnt) write.
Printed(cnt) == [j \in 1..cnt |-> [kind |-> "print", v |-> L(<<Num(j)>>)]]
\* The prints of an order program: the head's, the arguments', the body's.
OrderPrints == 1 + progid.n + (IF progid.m = 0 THEN 0 ELSE progid.m - 1)

\* C10: side effects happen in textual order.  In the order programs the
\* head, the arguments left to right and the body forms print 1, 2, 3, ...
\* in that order, each once; every argument has printed before the callee's
\* body starts; the call returns the value of the last body form (100), nil
\* for an empty body.
C10_TextualOrder ==
    progid.fam = "order" =>
        /\ Len(stdout) <= OrderPrints
        /\ stdout = SubSeq(Printed(OrderPrints), 1, Len(stdout))
        /\ \A j \in DOMAIN stack :
             (stack[j].kind = "apply" /\ functions[stack[j].fn.i].name = "lambda") =>
                 /\ Len(stdout) >= 1 + progid.n
                 /\ stack[j].args = [a \in 1..progid.n |-> Nil]
        /\ ctl \in {"exc", "uncaught"} => exc.type = "TailCall" /\ stack # <<>>
        /\ ctl = "done" =>
             /\ stdout = Printed(OrderPrints)
             /\ r = IF progid.m = 0 THEN Nil ELSE Num(100)

\* The call with two arguments and three body forms, made as the last form
\* of a function, has ended: five prints in order and the value 100.
C10_Witness ==
    /\ ctl = "done" /\ progid.fam = "order"
    /\ progid.n = 2 /\ progid.m = 3 /\ progid.w
    /\ stdout = Printed(5)
    /\ r = Num(100)

\* The top frame is a call whose head has been evaluated to a value that is
\* neither a Function, a Macro nor a host callable.
NonCallableHead ==
    /\ Running /\ Top.kind = "eval" /\ FormKind(Top.s) = "call" /\ Top.pc = "call"
    /\ Len(Top.vals) >= 1 /\ ~IsCallable(Top.vals[1])
\* The top frame itself raises in this step.
FrameRaises == ctl' = "exc" /\ Len(stack') = Len(stack)

\* C11: evaluating a sequence whose head evaluates to a non-callable value
\* raises NotCallableError, with tail=False and in tail position alike.
C11_Step == (NonCallableHead /\ FrameRaises) => exc'.type = "NotCallableError"
C11_NonCallableHeadRaisesNotCallable == [][C11_Step]_vars

\* The part of C11 for tail=False.
NonCallableHeadOutsideTail ==
    [][(NonCallableHead /\ ~Top.tail) =>
          (FrameRaises /\ exc'.type = "NotCallableError" /\ Len(Top.vals) = 1)]_vars

\* ------------------------------------------------------------------ quasiquote claims
\* The template of a quasiquote program, and the program has run to its end
\* with the top-level `TEMPLATE evaluated once.
QqTemplateOf == progid.ps
QqOnceDone ==
    /\ ctl = "done"
    /\ \/ progid.fam = "qq" /\ ~progid.w
       \/ progid.fam = "qqchain"

\* y is (p i) or (pl i), the expressions of the templates that print i; the
\* value of (p i) is i, the value of (pl i) the list (i i+10).
IsPrinter(y) ==
    /\ IsList(y) /\ Len(y.e) = 2 /\ IsSym(y.e[1]) /\ y.e[1].n \in {"p", "pl"}
    /\ y.e[2].k = "int"
\* The numbers print has written.
PrintedNumbers == {stdout[k].v.e[1].i : k \in {j \in DOMAIN stdout : stdout[j].kind = "print"}}

\* Every sub-form of t, t included.
RECURSIVE SubForms(_)
SubForms(t) ==
    IF IsList(t) THEN {t} \cup UNION {SubForms(t.e[j]) : j \in DOMAIN t.e} ELSE {t}

\* The i of every (unquote (p i)) and (unquote (pl i)) in t.
UnquotedPrinters(t) ==
    {y.e[2].e[2].i : y \in {u \in SubForms(t) : HeadedBy(u, "unquote") /\ Len(u.e) = 2
                                                 /\ IsPrinter(u.e[2])}}

\* The i of every (unquote (p i)) whose depth is 1 when the depth is d at
\* t, goes up by one under each quasiquote and down by one under each
\* unquote and each unquote-splicing.
RECURSIVE UnquotedAtDepthOne(_, _)
UnquotedAtDepthOne(t, d) ==
    IF ~IsList(t) THEN {}
    ELSE IF HeadedBy(t, "quasiquote") /\ Len(t.e) = 2 THEN UnquotedAtDepthOne(t.e[2], d + 1)
    ELSE IF HeadedBy(t, "unquote") /\ Len(t.e) = 2
         THEN (IF d = 1 /\ IsPrinter(t.e[2]) THEN {t.e[2].e[2].i} ELSE {})
              \cup UnquotedAtDepthOne(t.e[2], d - 1)
    ELSE IF HeadedBy(t, "unquote-splicing") /\ Len(t.e) = 2
         THEN UnquotedAtDepthOne(t.e[2], d - 1)
    ELSE UNION {UnquotedAtDepthOne(t.e[j], d) : j \in DOMAIN t.e}

\* C12 as stated: (quasiquote X) evaluates exactly the (unquote Y) sub-forms
\* of X whose depth is 1, the depth starting at 1, going up under each nested
\* quasiquote and down under each unquote and each unquote-splicing.
C12_EvaluatesUnquotesOfDepthOneAsStated ==
    QqOnceDone =>
        \A i \in UnquotedPrinters(QqTemplateOf) :
            i \in PrintedNumbers <=> i \in UnquotedAtDepthOne(QqTemplateOf, 1)

\* What the expressions the templates unquote evaluate to, and print.
RECURSIVE QqExpected(_, _)
RECURSIVE QqExpectedList(_, _, _)
RECURSIVE ExprExpected(_)
ExprExpected(y) ==
    IF IsPrinter(y)
    THEN [v |-> IF y.e[1].n = "p" THEN y.e[2] ELSE L(<<y.e[2], Num(y.e[2].i + 10)>>),
          out |-> <<y.e[2].i>>]
    ELSE IF HeadedBy(y, "quasiquote") THEN QqExpected(y.e[2], 1)
    ELSE IF y = Sym("x") THEN [v |-> Num(42), out |-> <<>>]
    ELSE IF y = Call3(Sym("+"), Num(1), Num(2)) THEN [v |-> Num(3), out |-> <<>>]
    ELSE IF y = L(<<Sym("list")>>) THEN [v |-> L(<<>>), out |-> <<>>]
    ELSE [v |-> y, out |-> <<>>]

\* The value of `t walked at depth d, and the numbers printed on the way:
\* an unquote lowers the depth, and so does an unquote-splicing that is an
\* element of a sequence headed by neither quasiquote nor unquote; a
\* sequence headed by unquote-splicing anywhere else is a plain sequence.
QqExpected(t, d) ==
    IF ~IsList(t) THEN [v |-> t, out |-> <<>>]
    ELSE IF HeadedBy(t, "quasiquote")
         THEN LET in == QqExpected(t.e[2], d + 1) IN [v |-> Quasi(in.v), out |-> in.out]
    ELSE IF HeadedBy(t, "unquote")
         THEN IF d = 1 THEN ExprExpected(t.e[2])
              ELSE LET in == QqExpected(t.e[2], d - 1) IN [v |-> Unq(in.v), out |-> in.out]
    ELSE QqExpectedList(t, d, Len(t.e))
QqExpectedList(t, d, j) ==
    IF j = 0 THEN [v |-> L(<<>>), out |-> <<>>]
    ELSE LET before == QqExpectedList(t, d, j - 1)
             x == t.e[j]
             in == IF IsSplice(x)
                   THEN IF d = 1 THEN ExprExpected(x.e[2]) ELSE QqExpected(x.e[2], d - 1)
                   ELSE QqExpected(x, d)
             items == IF IsSplice(x)
                      THEN IF d = 1 THEN in.v.e ELSE <<Splice(in.v)>>
                      ELSE <<in.v>>
         IN  [v |-> L(before.v.e \o items), out |-> before.out \o in.out]

PrintsOf(out) == [j \in DOMAIN out |-> [kind |-> "print", v |-> L(<<Num(out[j])>>)]]

\* C12: (quasiquote X) evaluates exactly the (unquote Y) sub-forms the walk
\* meets at depth 1, in the order of the text, and puts their values in
\* their places; a deeper unquote stays (unquote Y') with Y' walked one
\* level up, a nested quasiquote stays with its operand walked one level
\* down; the depth goes down under an unquote-splicing only where that is an
\* element of a sequence headed by neither quasiquote nor unquote.
C12_EvaluatesUnquotesTheWalkMeetsAtDepthOne ==
    QqOnceDone =>
        /\ r = QqExpected(QqTemplateOf, 1).v
        /\ stdout = PrintsOf(QqExpected(QqTemplateOf, 1).out)

\* `(a ,(p 1) `(b ,(p 2) ,,(p 3))) has printed 1 and 3 and is
\* (a 1 `(b ,(p 2) ,3)).
C12_Witness ==
    /\ QqOnceDone /\ progid.fam = "qq" /\ progid.n = 2
    /\ stdout = PrintsOf(<<1, 3>>)
    /\ r = L(<<Sym("a"), Num(1), Quasi(L(<<Sym("b"), Unq(P(2)), Unq(Num(3))>>))>>)

\* The pieces the elements 1..j of t put into the result, left to right:
\* the elements of the value for an unquote-splicing at depth 1, one piece
\* for every other element.
RECURSIVE SplicedPieces(_, _, _, _)
SplicedPieces(t, depth, vals, j) ==
    IF j > Len(t.e) THEN <<>>
    ELSE (IF IsSplice(t.e[j])
          THEN IF depth = 1 THEN [k \in 1..Len(vals[j].e) |-> vals[j].e[k]]
               ELSE <<Splice(vals[j])>>
          ELSE <<vals[j]>>)
         \o SplicedPieces(t, depth, vals, j + 1)

\* The walk of a sequence (headed by neither quasiquote nor unquote) returns.
QqSequenceReturns ==
    /\ QqInLoop /\ Len(Top.vals) = Len(Top.s.e) /\ ctl' = "run"
    /\ Len(stack') = Len(stack) - 1

C13_Step == QqSequenceReturns => Delivered = L(SplicedPieces(Top.s, Top.depth, Top.vals, 1))

\* The program (define (f) `TEMPLATE) (list (f) (f)) has run to its end.
QqTwiceDone == ctl = "done" /\ progid.fam = "qq" /\ progid.w

C13_Twice ==
    QqTwiceDone =>
        LET once == QqExpected(QqTemplateOf, 1) IN
        /\ r = L(<<once.v, once.v>>)
        /\ stdout = PrintsOf(once.out \o once.out)
        /\ functions[3].body = <<Quasi(QqTemplateOf)>>

\* C13: in a sequence the quasiquote walk goes through, every element
\* (unquote-splicing Y) at depth 1 is replaced by the elements of the value
\* of Y, in their order and at the element's place, the other elements
\* keeping their order; the template is left as it was, and evaluating the
\* same quasiquote form twice gives equal results.
C13_SplicesInPlaceAndLeavesTheTemplate == []C13_Twice /\ [][C13_Step]_vars

\* (define (f) `(,@(pl 1) (b ,(p 2) ,@(pl 3)) ,(p 4))) (list (f) (f)) is
\* twice (1 11 (b 2 3 13) 4).
C13_Witness ==
    /\ QqTwiceDone /\ progid.n = 6
    /\ r.e[1] = L(<<Num(1), Num(11), L(<<Sym("b"), Num(2), Num(3), Num(13)>>), Num(4)>>)
    /\ r.e[2] = r.e[1]
    /\ stdout = PrintsOf(<<1, 2, 3, 4, 1, 2, 3, 4>>)

\* ------------------------------------------------------------------ macro claims
\* A macroexpand_r call returns in this step, and what it returns.
MxReturns ==
    /\ Running /\ Top.kind = "mx"
    /\ Len(stack') = Len(stack) - 1 /\ ctl' = "run"
MxDelivered ==
    IF Len(stack) = 1 THEN expanded'[1]
    ELSE stack'[Len(stack) - 1].vals[Len(stack'[Len(stack) - 1].vals)]

\* C14: macroexpand_r expands nothing inside a (quote X) sequence: the call
\* that holds a sequence headed by quote, written in the text or produced by
\* a macro, returns that sequence as it is.
C14_Step == (MxReturns /\ HeadedBy(Top.s, "quote")) => MxDelivered = Top.s
C14_QuoteIsLeftAsWritten == [][C14_Step]_vars

\* The part of C14 for a quote that is written in the text and whose X is
\* headed by none of quote, quasiquote, unquote, unquote-splicing.
QuoteOfPlainFormIsLeftAsWritten ==
    [][(MxReturns /\ HeadedBy(Top.s, "quote") /\ Top.pc = "wrap"
          /\ ~(SymbolHeaded(Top.s.e[2]) /\ Top.s.e[2].e[1].n \in MxSpecialHeads \ {"lambda"}))
       => MxDelivered = Top.s]_vars

\* Globals binds the head of t to a Macro.
MacroHeaded(t) ==
    /\ SymbolHeaded(t)
    /\ ScopeLookup(scopes, 1, t.e[1].n).found
    /\ IsMacro(ScopeLookup(scopes, 1, t.e[1].n).value)

\* No sequence of t in an evaluated position (not inside quote, not at a
\* quasi-quote depth above 0, not a lambda's parameter list) is headed by a
\* global Macro; d is the quasi-quote depth at t.
RECURSIVE NoMacroCallLeft(_, _)
NoMacroCallLeft(t, d) ==
    IF ~IsList(t) \/ HeadedBy(t, "quote") THEN TRUE
    ELSE IF HeadedBy(t, "quasiquote") THEN Len(t.e) < 2 \/ NoMacroCallLeft(t.e[2], d + 1)
    ELSE IF HeadedBy(t, "unquote") \/ HeadedBy(t, "unquote-splicing")
         THEN Len(t.e) < 2 \/ NoMacroCallLeft(t.e[2], d - 1)
    ELSE IF HeadedBy(t, "lambda")
         THEN \A j \in 3..Len(t.e) : NoMacroCallLeft(t.e[j], d)
    ELSE /\ d = 0 => ~MacroHeaded(t)
         /\ \A j \in DOMAIN t.e : NoMacroCallLeft(t.e[j], d)

\* The evaluator is at its 'unexpected macro call' branch (lines 363-365).
UnexpectedMacroCall ==
    /\ Running /\ Top.kind = "eval" /\ FormKind(Top.s) = "call" /\ Top.pc = "call"
    /\ Len(Top.vals) = 1 /\ IsMacro(Top.vals[1])

\* The first half of C15: what macroexpand_r hands to psil() holds no
\* sequence headed by a global Macro in an evaluated position.
ExpandedFormHoldsNoMacroCall == expanded # <<>> => NoMacroCallLeft(expanded[1], 0)

\* C15: after macroexpand_r(F) at depth 0, with every macro defined before,
\* the result holds no sequence in an evaluated position whose head is bound
\* globally to a Macro, and evaluating it never reaches the evaluator's
\* 'unexpected macro call' branch.
C15_NoMacroCallReachesTheEvaluator ==
    /\ ExpandedFormHoldsNoMacroCall
    /\ ~UnexpectedMacroCall

\* ------------------------------------------------------------------ reader claims
\* The round trip of a form F is over: external(F) has raised, or it has
\* returned a text and read() has made its one parse call on it.
ExternalRaised == rdform # <<>> /\ rdtext = <<>>
RereadDone == rdform # <<>> /\ rdtext # <<>> /\ rdpc \in {"tokens", "end", "raised"} /\ Len(rdlog) = 1

\* C16: for every form F the reader produces, external(F) returns a text
\* and read() of that text returns a form structurally equal to F.
C16_ReadOfExternalGivesTheForm ==
    /\ ~ExternalRaised
    /\ RereadDone => rdlog[1].err = "" /\ rdlog[1].v = rdform[1]

\* The position of the first token that ends the call parse makes on the
\* stream ts, and how it ends: depth counts the LPARENs still open, pend
\* says that the last token was a prefix token.
PrefixTokens == {"QUOTE", "QQUOTE", "COMMA", "SPLICE"}
RECURSIVE Scan(_, _, _, _)
Scan(ts, i, depth, pend) ==
    IF i > Len(ts)
    THEN IF depth > 0 THEN [out |-> "unclosed", used |-> i - 1]
         ELSE IF i = 1 THEN [out |-> "nil", used |-> 0]
         ELSE [out |-> "form", used |-> i - 1]
    ELSE LET t == ts[i].t IN
         CASE t = "RAISE" -> [out |-> "raised", used |-> i]
           [] t = "LPAREN" -> Scan(ts, i + 1, depth + 1, FALSE)
           [] t = "RPAREN" ->
                IF depth = 0 \/ pend THEN [out |-> "unexpected", used |-> i]
                ELSE IF depth = 1 THEN [out |-> "form", used |-> i]
                ELSE Scan(ts, i + 1, depth - 1, FALSE)
           [] t \in PrefixTokens -> Scan(ts, i + 1, depth, TRUE)
           [] OTHER -> IF depth = 0 THEN [out |-> "form", used |-> i]
                       ELSE Scan(ts, i + 1, depth, FALSE)

\* One parse call on the stream: what it logged against what the count of
\* parentheses says.
C17_Step ==
    (rdpc = "tokens" /\ Len(rdlog') = Len(rdlog) + 1) =>
        LET o == Scan(tokens, 1, 0, FALSE)
            res == rdlog'[Len(rdlog')]
        IN  /\ (o.out = "unclosed") <=> (res.err = "unclosed parenthesis")
            /\ (o.out = "form") <=> (res.err = "" /\ tokens # <<>>)
            /\ o.out = "form" => tokens' = Drop(tokens, o.used)
            /\ (o.out = "form" /\ tokens[1].t = "LPAREN") =>
                   IsList(res.v) /\ tokens[o.used].t = "RPAREN"
            /\ tokens = <<>> => res.err = "" /\ res.v = Nil /\ tokens' = <<>>

\* C17: a parse call raises SyntaxError('unclosed parenthesis') exactly when
\* the stream runs out while an LPAREN of the call is open, at any depth; it
\* returns a sequence for an LPAREN only with the matching RPAREN consumed,
\* leaves in the stream every token after its one top-level form, and
\* returns nil on an exhausted stream.
C17_ParseStopsAtTheEndOfOneForm == [][C17_Step]_vars

\* The stream ( ) ( ( : the first call returned the empty sequence, the
\* second one ran out two LPARENs deep.
C17_Witness ==
    /\ Len(rdlog) = 2
    /\ rdlog[1].err = "" /\ rdlog[1].v = L(<<>>)
    /\ Len(rdlog[2].from) = 2
    /\ \A k \in 1..2 : rdlog[2].from[k].t = "LPAREN"
    /\ rdlog[2].err = "unclosed parenthesis"

\* ------------------------------------------------------------------ diagnostics claims
\* A Scope.eval call for the form Top.s is left by an exception other than
\* TailCall: it has printed the one line "* external(s)" and the exception
\* that leaves it is the one that reached it.
C18_Step ==
    (Raising /\ Top.kind = "eval" /\ exc.type # "TailCall"
        /\ stack' = SubSeq(stack, 1, Len(stack) - 1)) =>
        /\ stdout' = Append(stdout, [kind |-> "diag", v |-> Top.s])
        /\ exc' = exc

\* C18: every Scope.eval call that an exception other than TailCall leaves
\* emits exactly one line "* external(s)" for its form s and re-raises the
\* same exception, a non-tail call whose trampoline loop ran the failing
\* call included.
C18_EveryFrameCrossedEmitsItsDiagnostic == [][C18_Step]_vars

\* With the call of interpreter.py line 369 no trampoline loop runs, and
\* every frame crossed emits its line.
DiagnosticsOfInterpreterPy == [][impl = "interpreter" => C18_Step]_vars
\* Whatever the call, a frame whose own evaluation raised emits its line.
DiagnosticsOutsideTheTrampoline == [][(stack # <<>> /\ Top.pc # "tramp") => C18_Step]_vars

\* ------------------------------------------------------------------ construction claims
\* The three shapes of a parameter specification: its entries, its rest
\* symbol, and whether each entry is a plain symbol or (o name).
HasDot(spec) == IsList(spec) /\ Len(spec.e) >= 2 /\ spec.e[Len(spec.e) - 1] = Sym(".")
EntriesOf(spec) ==
    IF IsSym(spec) THEN <<>>
    ELSE IF HasDot(spec) THEN Take(spec.e, Len(spec.e) - 2) ELSE spec.e
RestOf(spec) ==
    IF IsSym(spec) THEN spec
    ELSE IF HasDot(spec) THEN spec.e[Len(spec.e)] ELSE Nil
IsOptionalEntry(p) == IsList(p) /\ Len(p.e) = 2 /\ p.e[1] = Sym("o") /\ IsSym(p.e[2])
IsPlainEntry(p) == IsSym(p) /\ p # Sym(".")
WellShaped(spec) ==
    \/ IsSym(spec)
    \/ /\ IsList(spec)
       /\ \A i \in 1..Len(EntriesOf(spec)) :
              IsPlainEntry(EntriesOf(spec)[i]) \/ IsOptionalEntry(EntriesOf(spec)[i])
       /\ HasDot(spec) => IsSym(RestOf(spec))
EntryName(p) == IF IsSym(p) THEN p ELSE p.e[2]
\* (lambda PARAMS ...) made the Function the statement describes.
Constructed(spec) ==
    /\ ctl' = "run"
    /\ Len(functions') = Len(functions) + 1
    /\ LET f == functions'[Len(functions')]
           es == EntriesOf(spec)
       IN  /\ f.params = [i \in 1..Len(es) |-> EntryName(es[i])]
           /\ f.fixed = Cardinality({i \in 1..Len(es) : IsPlainEntry(es[i])})
           /\ f.rest = RestOf(spec)
C19_Step ==
    (EvalAt("lambda", "start") /\ WellShaped(Top.s.e[2])) => Constructed(Top.s.e[2])

\* C19: Function construction succeeds on every parameter spec of the three
\* shapes whose entries are plain symbols or (o name), at any position, and
\* records params = the entry names in order, fixed = the number of plain
\* entries, rest = the rest symbol or none.
C19_ConstructionAcceptsOptionalAnywhere == [][C19_Step]_vars

\* The same for the specs in which the element before the last one of the
\* written list is a symbol (a plain entry or the dot).
SymbolBeforeLast(spec) ==
    IsList(spec) /\ Len(spec.e) >= 2 => IsSym(spec.e[Len(spec.e) - 1])
ConstructionWithSymbolBeforeLast ==
    [][(EvalAt("lambda", "start") /\ SymbolBeforeLast(Top.s.e[2])) => C19_Step]_vars

\* ------------------------------------------------------------------ tail flag claims
\* The Scope.eval call `child` is made by the activation `parent` for a form
\* in tail position: the arm of an `if` whose condition has returned, or the
\* last body form of a Function.apply.
ChosenArm(f) == IF Truthy(f.vals[1]) THEN f.s.e[3] ELSE f.s.e[4]
InTailPosition(parent, child) ==
    \/ /\ parent.kind = "eval" /\ FormKind(parent.s) = "if"
       /\ Len(parent.vals) = 1
       /\ child.s = ChosenArm(parent)
    \/ /\ parent.kind = "apply"
       /\ Len(parent.vals) + 1 = Len(functions[parent.fn.i].body)
C20_Step ==
    /\ (stack # <<>> /\ Len(stack') = Len(stack) + 1 /\ stack'[Len(stack')].kind = "eval") =>
           LET child == stack'[Len(stack')] IN
           child.tail = (IF InTailPosition(Top, child) THEN Top.tail ELSE FALSE)
    /\ (Raising /\ Top.kind = "eval" /\ ~Top.tail /\ ctl' = "exc"
           /\ stack' = SubSeq(stack, 1, Len(stack) - 1)) => exc.type # "TailCall"

\* C20: a Scope.eval call gets its caller's tail flag when it is made for
\* the chosen arm of an `if` or for the last body form of a Function.apply,
\* and tail=False in every other position (condition, head and arguments of
\* a call, value of define / set!, unquoted expression, earlier body form);
\* a call evaluated with tail=False is not left by a TailCall.
C20_TailFlagReachesOnlyTailPositions == [][C20_Step]_vars

\* An `if` in tail position gave the flag to its arm, a call, which is
\* evaluating an argument that is a call with tail=False.
C20_Witness ==
    \E i \in 1..(Len(stack) - 2) :
        /\ stack[i].kind = "eval" /\ FormKind(stack[i].s) = "if" /\ stack[i].tail
        /\ stack[i + 1].kind = "eval" /\ FormKind(stack[i + 1].s) = "call" /\ stack[i + 1].tail
        /\ stack[i + 2].kind = "eval" /\ FormKind(stack[i + 2].s) = "call" /\ ~stack[i + 2].tail

\* ------------------------------------------------------------------ expansion claims
\* The macroexpand_r call j holds the form stack[j].s (after line 506, what
\* the macro returned); the calls below it hold the sequences that enclose
\* it.  The quasiquotes around call j that no unquote has matched yet.
UnquoteHeaded(p) == HeadedBy(p, "unquote") \/ HeadedBy(p, "unquote-splicing")
QuasiquotesLeft(j) ==
    Cardinality({i \in 1..(j - 1) : stack[i].kind = "mx" /\ HeadedBy(stack[i].s, "quasiquote")})
    - Cardinality({i \in 1..(j - 1) : stack[i].kind = "mx" /\ UnquoteHeaded(stack[i].s)})
AtUnquote == MxAt("start") /\ UnquoteHeaded(Top.s) /\ Len(Top.s.e) >= 2
C21_Step == AtUnquote => ((ctl' = "exc") <=> (QuasiquotesLeft(Len(stack)) <= 0))

\* C21: macroexpand_r fails on an unquote or unquote-splicing sequence
\* exactly when no enclosing quasiquote is left to match it, in forms of
\* the text and in forms a macro returned.
C21_UnquoteFailsExactlyWithoutQuasiquote == [][C21_Step]_vars

\* What line 502 tests is the depth argument of the call.
UnquoteFailsAtDepthZero ==
    [][AtUnquote => ((ctl' = "exc" /\ exc'.type = "TypeError") <=> (Top.depth <= 0))]_vars
\* The depth argument is the count of quasiquotes left in every call that
\* is not made for an element of a sequence a macro returned.
UnderMacroResult(j) ==
    \E i \in 1..(j - 1) :
        /\ stack[i].kind = "mx" /\ stack[i].pc = "children" /\ ~stack[i].quoted
        /\ SymbolHeaded(stack[i].s) /\ stack[i].s.e[1].n \in MxSpecialHeads
DepthCountsQuasiquotes ==
    \A j \in DOMAIN stack :
        (stack[j].kind = "mx" /\ ~UnderMacroResult(j) /\ (IsList(stack[j].s) \/ j = 1)) =>
            stack[j].depth = QuasiquotesLeft(j)

\* A macroexpand_r call that holds a lambda form returns it with the
\* parameter list it holds.
C22_Step ==
    (MxReturns /\ HeadedBy(Top.s, "lambda") /\ Len(Top.s.e) >= 2) =>
        /\ IsList(MxDelivered) /\ Len(MxDelivered.e) >= 2
        /\ MxDelivered.e[2] = Top.s.e[2]

\* C22: macroexpand_r returns the parameter list of a lambda form as it is
\* written, for a lambda form of the text and for one a macro returned.
C22_LambdaParametersAreNotExpanded == [][C22_Step]_vars

\* The same for the calls that take the lambda branch of lines 496-497.
LambdaBranchKeepsParameters ==
    [][(MxReturns /\ Top.pc \in {"start", "lambda"}) => C22_Step]_vars

\* The top-level form of the text that psil() is expanding.
TextForm == TextForms[Len(TextForms) - Len(prog)]
\* The argument p the macroexpand_r call j was made with: the form of the
\* text, or the element its caller is at.
MxArgument(j) ==
    IF j = 1 THEN TextForm
    ELSE LET caller == stack[j - 1] IN
         CASE caller.pc = "wrap" -> caller.s.e[2]
           [] caller.pc = "lambda" -> caller.s.e[Len(caller.vals) + 3]
           [] OTHER -> caller.s.e[Len(caller.vals) + 1]
\* No sequence anywhere in t is headed by a symbol that Globals binds to a
\* Macro.
MacroFree(t) == \A u \in SubForms(t) : ~MacroHeaded(u)
\* No unquote or unquote-splicing sequence of t is outside a quasiquote; d
\* is the number of quasiquotes around t.
RECURSIVE NoUnquoteOutside(_, _)
NoUnquoteOutside(t, d) ==
    IF ~IsList(t) THEN TRUE
    ELSE IF HeadedBy(t, "quasiquote") THEN \A j \in 2..Len(t.e) : NoUnquoteOutside(t.e[j], d + 1)
    ELSE IF UnquoteHeaded(t) THEN d > 0 /\ \A j \in 2..Len(t.e) : NoUnquoteOutside(t.e[j], d - 1)
    ELSE \A j \in DOMAIN t.e : NoUnquoteOutside(t.e[j], d)
\* Every sequence of t headed by quote, quasiquote, unquote or
\* unquote-splicing has an operand.
HasOperands(t) ==
    \A u \in SubForms(t) :
        (SymbolHeaded(u) /\ u.e[1].n \in MxSpecialHeads \ {"lambda"}) => Len(u.e) >= 2
\* The macroexpand_r call on top was made at depth 0 for a form as the
\* statement describes.
PlainCall ==
    /\ stack # <<>> /\ Top.kind = "mx" /\ Top.depth = 0 /\ ~Top.quoted
    /\ MacroFree(MxArgument(Len(stack))) /\ NoUnquoteOutside(MxArgument(Len(stack)), 0)
\* Such a call returns a form equal to its argument.
ReturnsItsArgument ==
    Len(stack') = Len(stack) - 1 => MxDelivered = MxArgument(Len(stack))
WellFormedCall == PlainCall /\ HasOperands(MxArgument(Len(stack)))

TrampolineCallFailed ==
    Raising /\ Top.kind = "eval" /\ Top.pc = "tramp" /\ exc.type # "TailCall"
\* The exception leaves the Scope.eval as it is: the frame goes, its caller
\* gets no value and sees the same exception.
C24_Step ==
    TrampolineCallFailed =>
        /\ stack' = SubSeq(stack, 1, Len(stack) - 1)
        /\ ctl' = "exc" /\ exc' = exc /\ r' = r

\* C24: an exception other than TailCall raised by a call of the trampoline
\* loop is neither caught nor replaced by the loop, no value is returned,
\* and the caller of the Scope.eval gets that exception.
C24_TrampolineLetsOtherExceptionsPass == [][C24_Step]_vars

\* The loop of a non-tail Scope.eval that another evaluation called ran a
\* call that failed.
C24_Witness == TrampolineCallFailed /\ ~Top.tail /\ Len(stack) >= 2

\* ------------------------------------------------------------------ define claims
\* The evaluation on top is about to call self.define(name, value): a
\* (define NAME VALUE) whose value is there, or a (define (NAME ...) ...) or
\* (defmacro NAME ...) whose Function is constructed in the same step.
AtDefine ==
    \/ EvalAt("define", "define") /\ Len(Top.vals) = 1
    \/ EvalAt("define_fn", "start")
    \/ EvalAt("defmacro", "start")
DefineName ==
    IF FormKind(Top.s) = "define_fn" THEN Top.s.e[2].e[1].n ELSE Top.s.e[2].n
DefineValue ==
    IF FormKind(Top.s) = "define" THEN Top.vals[1] ELSE Fn(Len(functions) + 1)
\* Scope s is scope t or a descendant of it.
RECURSIVE Under(_, _, _)
Under(scs, s, t) ==
    IF s = 0 THEN FALSE
    ELSE IF s = t THEN TRUE
    ELSE Under(scs, scs[s].parent, t)
\* The names some scope or fallback table binds.
NamesInTables ==
    UNION {DOMAIN scopes[i].symbols \cup DOMAIN scopes[i].globals : i \in DOMAIN scopes}
\* The step is a define that was made (constructing the Function did not
\* fail).
Defined == AtDefine /\ ctl' = "run"
C26_Step ==
    Defined =>
        LET s == Top.scope
            nm == DefineName
        IN  /\ DOMAIN scopes' = DOMAIN scopes
            /\ \A i \in DOMAIN scopes : i # s => scopes'[i] = scopes[i]
            /\ scopes'[s].parent = scopes[s].parent
            /\ scopes'[s].hasglobals = scopes[s].hasglobals
            /\ scopes'[s].globals = scopes[s].globals
            /\ DOMAIN scopes'[s].symbols = DOMAIN scopes[s].symbols \cup {nm}
            /\ \A x \in DOMAIN scopes[s].symbols :
                   x # nm => scopes'[s].symbols[x] = scopes[s].symbols[x]
            /\ scopes'[s].symbols[nm] = DefineValue
            /\ stderr' = IF nm \in DOMAIN scopes[s].symbols
                         THEN Append(stderr, nm) ELSE stderr
            /\ \A i \in DOMAIN scopes : \A x \in NamesInTables \cup {nm} :
                   ScopeLookup(scopes', i, x) # ScopeLookup(scopes, i, x)
                       => x = nm /\ Under(scopes, i, s)

\* C26: Scope.define(name, v) changes the binding of name in the table of
\* the scope it is called on and nothing else: every other scope, ancestors
\* included, and every other name keep their bindings, only lookups of name
\* from that scope and its descendants can change, and a name the scope
\* binds already gets the new value after a warning.
C26_DefineChangesOnlyItsOwnScope == [][C26_Step]_vars

\* A scope other than Globals binds for the second time a name that Globals
\* binds too: Globals still has its own value, and the warning was printed.
C26_Witness ==
    /\ Len(scopes) >= 2
    /\ "x" \in DOMAIN scopes[2].symbols /\ "x" \in DOMAIN scopes[1].symbols
    /\ scopes[2].symbols["x"] = Num(3) /\ scopes[1].symbols["x"] = Num(1)
    /\ stderr = <<"x">>

\* ------------------------------------------------------------------ parent link claims
\* The scopes a walk `s = s.parent` visits from scope s, s first, for at
\* most fuel steps; the walk has ended iff the last one's parent is None.
RECURSIVE ParentWalk(_, _, _)
ParentWalk(scs, s, fuel) ==
    IF s = 0 \/ fuel = 0 THEN <<>>
    ELSE <<s>> \o ParentWalk(scs, scs[s].parent, fuel - 1)
\* The walk from scope i visits no scope twice, ends, and ends at Globals.
WalkEndsAtGlobals(i) ==
    LET w == ParentWalk(scopes, i, Len(scopes) + 1) IN
    /\ Len(w) <= Len(scopes)
    /\ \A a, b \in DOMAIN w : a # b => w[a] # w[b]
    /\ w[Len(w)] = 1
    /\ scopes[1].parent = 0
ParentsFormATree ==
    \A i \in DOMAIN scopes :
        /\ i > 1 => scopes[i].parent \in 1..(i - 1)
        /\ WalkEndsAtGlobals(i)
ParentsAreFixed ==
    /\ Len(scopes') >= Len(scopes)
    /\ \A i \in DOMAIN scopes : scopes'[i].parent = scopes[i].parent
    /\ \A i \in DOMAIN scopes' : i \notin DOMAIN scopes => scopes'[i].parent \in DOMAIN scopes

\* C27: a scope's parent is a scope that existed when the scope was made and
\* no step changes it; from every scope the parent links lead, without
\* repeating a scope, to Globals, whose parent is None, so the walks of
\* Scope.lookup and Scope.set end.
C27_ParentLinksFormATree == []ParentsFormATree /\ [][ParentsAreFixed]_vars

\* Two call scopes hang under Globals and a third under one of them.
C27_Witness ==
    /\ \E i, j \in DOMAIN scopes : i # j /\ scopes[i].parent = 1 /\ scopes[j].parent = 1
    /\ \E i \in DOMAIN scopes : scopes[i].parent > 1

\* ------------------------------------------------------------------ form order claims
\* The place in the text of the form psil() has taken last.
FormIndex == Len(TextForms) - Len(prog)
IsDefmacroOf(f, nm) ==
    HeadedBy(f, "defmacro") /\ Len(f.e) >= 2 /\ IsSym(f.e[2]) /\ f.e[2].n = nm
\* A top-level form before form i is (defmacro nm ...).
DefmacroBefore(nm, i) == \E k \in 1..(i - 1) : IsDefmacroOf(TextForms[k], nm)
\* The names the text's top-level forms define macros for.
MacroNames ==
    {TextForms[k].e[2].n : k \in {j \in DOMAIN TextForms : HeadedBy(TextForms[j], "defmacro")}}
GlobalsBindsMacro(nm) ==
    LET l == ScopeLookup(scopes, 1, nm) IN l.found /\ IsMacro(l.value)
\* macroexpand_r is at work on a top-level form.
Expanding == stack # <<>> /\ stack[1].kind = "mx"
\* While form i is expanded, the macros of Globals are those of the
\* defmacro forms before form i.
MacrosAreThoseOfEarlierForms ==
    Expanding => \A nm \in MacroNames : GlobalsBindsMacro(nm) <=> DefmacroBefore(nm, FormIndex)
\* psil() takes the next form (parse, line 642) only when the form before
\* it is expanded and evaluated, and evaluates what the expansion returned.
OneFormAtATime ==
    /\ prog' # prog =>
          /\ stack = <<>> /\ expanded = <<>> /\ ctl = "run"
          /\ prog' = Tail(prog)
          /\ stack' = <<MxFrame(Head(prog), 0, FALSE)>>
    /\ (stack = <<>> /\ expanded # <<>> /\ expanded # <<Nil>> /\ ctl = "run") =>
          /\ stack' = <<EvalFrame(expanded[1], 1, FALSE)>>
          /\ expanded' = <<>> /\ prog' = prog
\* macroexpand (line 506) is called on a form headed by a symbol, and the
\* call applies a macro.
AtMacroexpand == Running /\ Top.kind = "mx" /\ MxCallsMacroexpand(Top) /\ Expanding
MacroApplied ==
    /\ Len(stack') = Len(stack) + 1
    /\ stack'[Len(stack')].kind = "apply"
AppliedIffDefinedEarlier ==
    AtMacroexpand =>
        (MacroApplied <=> DefmacroBefore(Top.s.e[1].n, FormIndex))

\* C28: psil() expands and evaluates each top-level form before it expands
\* the next one; a call of a macro that a top-level defmacro defines is
\* expanded in the forms after the defmacro and in no form before it, nor
\* in the defmacro form itself.
C28_FormsAreHandledOneAtATime ==
    /\ []MacrosAreThoseOfEarlierForms
    /\ [][OneFormAtATime /\ AppliedIffDefinedEarlier]_vars

\* The macro m was left alone in the first form and in the form that defines
\* it, and its call in the third form has been expanded to (+ 2 1).
C28_Witness ==
    /\ progid.fam = "macroorder" /\ progid.n = 1
    /\ FormIndex = 3 /\ expanded = <<L(<<Sym("+"), Num(2), Num(1)>>)>>
    /\ functions[1].body = <<M(Num(2))>>

\* ------------------------------------------------------------------ fallback table claims
\* The second psil() call of the run is under way or over, and it was given
\* no glob.
SecondCallWithoutGlob == progid.fam = "calls" /\ progid.m = 2 /\ ~glob.installed
\* The fallback table of the first call binds nm, and no scope does.
OnlyInFirstGlob(nm) ==
    /\ CallPair(progid.n).firstglob.installed
    /\ nm \in DOMAIN CallPair(progid.n).firstglob.table
    /\ \A i \in DOMAIN scopes : nm \notin DOMAIN scopes[i].symbols
\* Scope.eval is about to look up a name that only the first call's table
\* binds.
LooksUpFirstGlobName == EvalAt("symbol", "start") /\ OnlyInFirstGlob(Top.s.n)
C30_Step ==
    (SecondCallWithoutGlob /\ LooksUpFirstGlobName) =>
        ctl' = "exc" /\ exc'.type = "UndefinedSymbolError"

EvaluatingAForm == stack # <<>> /\ stack[1].kind # "mx"
\* Lines 665-666: while a top-level form is evaluated, the fallback table of
\* Globals is the glob of the psil() call under way, and a name that only
\* the first call's table binds is not found.
GlobOfTheCallWhileEvaluating ==
    /\ [](EvaluatingAForm =>
             /\ scopes[1].hasglobals = glob.installed
             /\ scopes[1].globals = glob.table)
    /\ [][EvaluatingAForm => C30_Step]_vars
\* The lookups that find such a name are made while the first form of the
\* second call is expanded, which is before line 665.
StaleTableOnlyBeforeTheFirstEvaluation ==
    [][(SecondCallWithoutGlob /\ LooksUpFirstGlobName /\ ctl' = "run") =>
           /\ stack[1].kind = "mx"
           /\ Len(prog) = Len(CallPair(progid.n).second) - 1]_vars

\* ------------------------------------------------------------------ evaluator claims
\* The text has returned on one evaluator and run to its end on the other.
RanOnBoth == other # <<>> /\ ctl \in {"done", "uncaught"}
\* C29: a text that psil() evaluates without error gives the same value on
\* the evaluator that applies Functions through the trampoline (src/psil.py
\* line 350, tail=True) and on the one that applies them by direct recursion
\* (src/psil/interpreter.py line 369, tail=False throughout), with the same
\* output in the same order, the same warnings, and the same scopes,
\* bindings and functions made in the same order.
C29_TrampolineGivesTheSameResults ==
    RanOnBoth =>
        /\ ctl = "done"
        /\ r = other[1].r
        /\ stdout = other[1].stdout
        /\ stderr = other[1].stderr
        /\ scopes = other[1].scopes
        /\ functions = other[1].functions

\* (sum-to 2 0), whose calls are all tail calls, gave 3 through the
\* trampoline and has given 3 by direct recursion.
C29_Witness ==
    /\ RanOnBoth /\ ctl = "done"
    /\ progid.fam = "sumto" /\ progid.n = 2
    /\ other[1].impl = "psil_py" /\ impl = "interpreter"
    /\ r = Num(3)

\* ------------------------------------------------------------------ tokeniser claims
\* tokenise has just run on the text rdtext; a failure is the last entry
\* of tokens.
Tokenised == rdpc = "tokens" /\ rdtext # <<>> /\ rdlog = <<>>
FailureOf(ts) == IF ts # <<>> /\ ts[Len(ts)].t = "RAISE" THEN ts[Len(ts)].v.n ELSE ""

\* C25: tokenise yields every token of the text or raises SyntaxError, and
\* fails in no other way, a text whose last line is a comment and a text
\* that ends in a comma included.
C25_TokeniseFailsOnlyWithSyntaxError ==
    Tokenised => FailureOf(tokens) \in {"", "SyntaxError"}

\* The other failures: IndexError on a text whose last character is a comma
\* (line 148 reads s[i+1]), ValueError on a text with no newline after a
\* semicolon (line 165).
TokeniseOtherFailures ==
    Tokenised =>
        /\ FailureOf(tokens) \in {"", "SyntaxError", "IndexError", "ValueError"}
        /\ FailureOf(tokens) = "IndexError" => rdtext[Len(rdtext)] = ","
        /\ FailureOf(tokens) = "ValueError" =>
               \E i \in DOMAIN rdtext :
                   rdtext[i] = ";" /\ \A j \in (i + 1)..Len(rdtext) : rdtext[j] # "\n"
\* A comment that a newline ends yields no token, and a comma is COMMA
\* unless an @ follows it: the tokens of  a ;a\na  (a ;(\n)  ,a  ,@a.
CommentAndCommaTokens ==
    Tokenised =>
        /\ rdtext = <<"a", " ", ";", "a", "\n", "a">> =>
               tokens = <<Token("SYMBOL", Sym("a")), Token("SYMBOL", Sym("a"))>>
        /\ rdtext = <<"(", "a", " ", ";", "(", "\n", ")">> =>
               tokens = <<Token("LPAREN", Nil), Token("SYMBOL", Sym("a")), Token("RPAREN", Nil)>>
        /\ rdtext = <<",", "a">> => tokens = <<Token("COMMA", Nil), Token("SYMBOL", Sym("a"))>>
        /\ rdtext = <<",", "@", "a">> => tokens = <<Token("SPLICE", Nil), Token("SYMBOL", Sym("a"))>>


====
